---- MODULE Spec2Model ----
(***************************************************************************)
(* Paragrid: push over a store of named grids whose cells may reference    *)
(* other grids.  The model follows src/python/paragrid.py (find_primary_ref,*)
(* _follow_enter_chain, _follow_exit_chain, try_enter,                     *)
(* push_traverse_backtracking, push, apply_push) and the strategy search   *)
(* of src/test_push_sketch.py (Navigator, push).                           *)
(* The entry mappers follow src/python/ancestor_entry.py and               *)
(* src/python/depth_aware_entry.py; pull follows sections 4.3, 4.5 and 4.6 *)
(* of the specification and the cases of TestPull.                         *)
(*                                                                         *)
(* Positions are 0-based as in the code; a grid's cells are a sequence of  *)
(* rows, so the cell at (r, c) is cells[r + 1][c + 1].                     *)
(***************************************************************************)
EXTENDS Integers, Sequences, FiniteSets, TLC

(* ----------------------------- bounds ---------------------------------- *)
\* widest generated one-row grid "main"
MaxCols == 2
\* widest generated one-row grid "a"
MaxInner == 1
\* the max_depth argument passed to push
MaxDepth == 15
\* most rows of the grids the entry mapper is run on
MaxRows == 5
\* most cells along an axis, and most portal hops, of a fraction round trip
MaxDim == 4
MaxHops == 2
\* passes of a loop of the continuity computation that are followed
MaxClimb == 4
\* the width of the generated rows pull walks along
MaxPull == 3
\* the small max_depth pull is called with
MaxPullDepth == 2

(* ------------------------- program constants --------------------------- *)
\* default of push(..., max_backtrack_depth)
max_backtrack_depth == 10

(* ------------------------------ cells ---------------------------------- *)
\* Empty(), Concrete(id), Ref(grid_id, is_primary); one record shape for all
Empty == [k |-> "E", v |-> 0, g |-> "", p |-> "none"]
Concrete(id) == [k |-> "C", v |-> id, g |-> "", p |-> "none"]
Ref(gid) == [k |-> "R", v |-> 0, g |-> gid, p |-> "none"]
RefP(gid, prim) == [k |-> "R", v |-> 0, g |-> gid, p |-> prim]

IsEmpty(cell) == cell.k = "E"
IsRef(cell) == cell.k = "R"

Grid(id, cells) == [id |-> id, cells |-> cells]
rows(grid) == Len(grid.cells)
cols(grid) == IF Len(grid.cells) > 0 THEN Len(grid.cells[1]) ELSE 0

CellPosition(gid, r, c) == [g |-> gid, r |-> r, c |-> c]
\* Python's None where a position is expected
NoPos == [g |-> "", r |-> -1, c |-> -1]

\* a store is a dict in insertion order: a sequence of grids with unique ids
StoreIds(store) == {store[i].id : i \in 1..Len(store)}
StoreGet(store, gid) == store[CHOOSE i \in 1..Len(store) : store[i].id = gid]

Direction == {"N", "S", "E", "W"}
deltas(d) ==
  CASE d = "N" -> <<-1, 0>>
    [] d = "S" -> <<1, 0>>
    [] d = "E" -> <<0, 1>>
    [] d = "W" -> <<0, -1>>

RefStrategy == {"TRY_ENTER_FIRST", "PUSH_FIRST"}

get_cell(store, pos) == StoreGet(store, pos.g).cells[pos.r + 1][pos.c + 1]

OutOfBounds(grid, r, c) == r < 0 \/ r >= rows(grid) \/ c < 0 \/ c >= cols(grid)

\* tag_fn(cell): the tag functions of the tests tag Concrete cells by id
tag_fn(stops, cell) == IF cell.k = "C" /\ cell.v \in stops THEN {"stop"} ELSE {}

\* a slip: the tag is looked up under another name, so no cell ever stops a push
HitsStop_wrongtag(stops, cell) == "STOP" \in tag_fn(stops, cell)

\* tags = tag_fn(cell); if "stop" in tags
HitsStop(stops, cell) == "stop" \in tag_fn(stops, cell)

(* ----------------------- find_primary_ref ------------------------------ *)
\* the scan order: grids in store order, rows, then columns
RECURSIVE ScanFrom(_, _)
ScanFrom(store, i) ==
  IF i > Len(store) THEN <<>>
  ELSE LET grid == store[i]
           n == rows(grid) * cols(grid)
           one == [j \in 1..n |->
                     CellPosition(grid.id, (j - 1) \div cols(grid), (j - 1) % cols(grid))]
       IN one \o ScanFrom(store, i + 1)

ScanOrder(store) == ScanFrom(store, 1)

\* a slip: the pass for explicitly marked references is left out
find_primary_ref_unmarked(store, target_grid_id) ==
  LET scan == ScanOrder(store)
      anyref == {i \in 1..Len(scan) :
                   LET cell == get_cell(store, scan[i])
                   IN IsRef(cell) /\ cell.g = target_grid_id}
      first(S) == CHOOSE i \in S : \A j \in S : i <= j
  IN IF anyref # {} THEN scan[first(anyref)] ELSE NoPos

find_primary_ref(store, target_grid_id) ==
  LET scan == ScanOrder(store)
      marked == {i \in 1..Len(scan) :
                   LET cell == get_cell(store, scan[i])
                   IN IsRef(cell) /\ cell.g = target_grid_id /\ cell.p = "true"}
      anyref == {i \in 1..Len(scan) :
                   LET cell == get_cell(store, scan[i])
                   IN IsRef(cell) /\ cell.g = target_grid_id}
      first(S) == CHOOSE i \in S : \A j \in S : i <= j
  IN IF marked # {} THEN scan[first(marked)]
     ELSE IF anyref # {} THEN scan[first(anyref)]
     ELSE NoPos

(* ----------------------------- try_enter ------------------------------- *)
\* a slip: the entry cell is taken on the far edge of the grid
try_enter_farside(store, grid_id, direction) ==
  IF grid_id \notin StoreIds(store) THEN NoPos
  ELSE LET grid == StoreGet(store, grid_id)
       IN CASE direction = "E" -> CellPosition(grid_id, rows(grid) \div 2, cols(grid) - 1)
            [] direction = "W" -> CellPosition(grid_id, rows(grid) \div 2, 0)
            [] direction = "S" -> CellPosition(grid_id, rows(grid) - 1, cols(grid) \div 2)
            [] direction = "N" -> CellPosition(grid_id, 0, cols(grid) \div 2)

\* a slip: the entry cell is the first cell of the edge, not its middle
try_enter_corner(store, grid_id, direction) ==
  IF grid_id \notin StoreIds(store) THEN NoPos
  ELSE LET grid == StoreGet(store, grid_id)
       IN CASE direction = "E" -> CellPosition(grid_id, 0, 0)
            [] direction = "W" -> CellPosition(grid_id, 0, cols(grid) - 1)
            [] direction = "S" -> CellPosition(grid_id, 0, 0)
            [] direction = "N" -> CellPosition(grid_id, rows(grid) - 1, 0)

\* middle of the edge the direction comes in through
try_enter(store, grid_id, direction) ==
  IF grid_id \notin StoreIds(store) THEN NoPos
  ELSE LET grid == StoreGet(store, grid_id)
       IN CASE direction = "E" -> CellPosition(grid_id, rows(grid) \div 2, 0)
            [] direction = "W" -> CellPosition(grid_id, rows(grid) \div 2, cols(grid) - 1)
            [] direction = "S" -> CellPosition(grid_id, 0, cols(grid) \div 2)
            [] direction = "N" -> CellPosition(grid_id, rows(grid) - 1, cols(grid) \div 2)

(* ------------------------ _follow_enter_chain -------------------------- *)
\* returns [pos, cycle]; pos = NoPos when entry is denied mid-chain
RECURSIVE EnterLoop(_, _, _, _, _, _)
EnterLoop(store, direction, max_d, visited, current, depth) ==
  IF ~(depth < max_d) THEN [pos |-> current, cycle |-> TRUE]
  ELSE IF current \in visited THEN [pos |-> current, cycle |-> TRUE]
  ELSE LET cell == get_cell(store, current)
       IN IF ~IsRef(cell) THEN [pos |-> current, cycle |-> FALSE]
          ELSE LET next_entry == try_enter(store, cell.g, direction)
               IN IF next_entry = NoPos THEN [pos |-> NoPos, cycle |-> FALSE]
                  ELSE EnterLoop(store, direction, max_d,
                                 visited \cup {current}, next_entry, depth + 1)

_follow_enter_chain(store, entry, direction, max_d) ==
  EnterLoop(store, direction, max_d, {}, entry, 0)

(* ------------------------- _follow_exit_chain -------------------------- *)
\* returns [pos, cycle]; pos = NoPos when the chain leaves the root grid
RECURSIVE ExitLoop(_, _, _, _, _, _)
ExitLoop(store, direction, max_d, visited, current, depth) ==
  IF ~(depth < max_d) THEN [pos |-> current, cycle |-> TRUE]
  ELSE IF current \in visited THEN [pos |-> current, cycle |-> TRUE]
  ELSE LET cell == get_cell(store, current)
       IN IF ~IsRef(cell) THEN [pos |-> current, cycle |-> FALSE]
          ELSE LET primary == find_primary_ref(store, cell.g)
               IN IF primary = NoPos THEN [pos |-> NoPos, cycle |-> FALSE]
                  ELSE LET parent_grid == StoreGet(store, primary.g)
                           exit_row == primary.r + deltas(direction)[1]
                           exit_col == primary.c + deltas(direction)[2]
                           nxt == IF OutOfBounds(parent_grid, exit_row, exit_col)
                                  THEN CellPosition(primary.g, primary.r, primary.c)
                                  ELSE CellPosition(primary.g, exit_row, exit_col)
                       IN ExitLoop(store, direction, max_d,
                                   visited \cup {current}, nxt, depth + 1)

_follow_exit_chain(store, exit_pos, direction, max_d) ==
  ExitLoop(store, direction, max_d, {}, exit_pos, 0)

\* one pass of the while loop of _follow_exit_chain, for running it step by
\* step: x = [visited, current, depth]; ret = "" while the loop goes on
\* a slip: the key is never added to visited
ExitPass_noadd(store, direction, max_d, x) ==
  LET out(p, c) == [visited |-> x.visited, current |-> x.current, depth |-> x.depth,
                    ret |-> "return", pos |-> p, cycle |-> c]
  IN IF ~(x.depth < max_d) THEN out(x.current, TRUE)
     ELSE IF x.current \in x.visited THEN out(x.current, TRUE)
     ELSE LET cell == get_cell(store, x.current)
          IN IF ~IsRef(cell) THEN out(x.current, FALSE)
             ELSE LET primary == find_primary_ref(store, cell.g)
                  IN IF primary = NoPos THEN out(NoPos, FALSE)
                     ELSE LET parent_grid == StoreGet(store, primary.g)
                              exit_row == primary.r + deltas(direction)[1]
                              exit_col == primary.c + deltas(direction)[2]
                          IN [visited |-> x.visited,
                              current |-> IF OutOfBounds(parent_grid, exit_row, exit_col)
                                          THEN CellPosition(primary.g, primary.r, primary.c)
                                          ELSE CellPosition(primary.g, exit_row, exit_col),
                              depth |-> x.depth + 1,
                              ret |-> "", pos |-> NoPos, cycle |-> FALSE]

ExitPass(store, direction, max_d, x) ==
  LET seen == x.visited \cup {x.current}
      out(v, p, c) == [visited |-> v, current |-> x.current, depth |-> x.depth,
                       ret |-> "return", pos |-> p, cycle |-> c]
  IN IF ~(x.depth < max_d) THEN out(x.visited, x.current, TRUE)
     ELSE IF x.current \in x.visited THEN out(x.visited, x.current, TRUE)
     ELSE LET cell == get_cell(store, x.current)
          IN IF ~IsRef(cell) THEN out(seen, x.current, FALSE)
             ELSE LET primary == find_primary_ref(store, cell.g)
                  IN IF primary = NoPos THEN out(seen, NoPos, FALSE)
                     ELSE LET parent_grid == StoreGet(store, primary.g)
                              exit_row == primary.r + deltas(direction)[1]
                              exit_col == primary.c + deltas(direction)[2]
                          IN [visited |-> seen,
                              current |-> IF OutOfBounds(parent_grid, exit_row, exit_col)
                                          THEN CellPosition(primary.g, primary.r, primary.c)
                                          ELSE CellPosition(primary.g, exit_row, exit_col),
                              depth |-> x.depth + 1,
                              ret |-> "", pos |-> NoPos, cycle |-> FALSE]

(* ------------------------------ apply_push ----------------------------- *)
\* rotated = [cells[-1]] + cells[:-1]
Rotated(path) ==
  LET n == Len(path)
  IN [i \in 1..n |-> IF i = 1 THEN path[n].cell ELSE path[i - 1].cell]

\* a slip: the updates are not grouped by grid id, every grid takes every write
\* that fits its shape
RECURSIVE ApplyUpdates_ungrouped(_, _, _, _, _)
ApplyUpdates_ungrouped(cells, gid, path, rotated, i) ==
  IF i > Len(path) THEN cells
  ELSE LET r == path[i].pos.r + 1
           c == path[i].pos.c + 1
       IN IF r > Len(cells) \/ c > Len(cells[1])
          THEN ApplyUpdates_ungrouped(cells, gid, path, rotated, i + 1)
          ELSE ApplyUpdates_ungrouped([cells EXCEPT ![r][c] = rotated[i]],
                                      gid, path, rotated, i + 1)

\* "for row, col, new_cell in grid_updates: mutable_cells[row][col] = new_cell",
\* the updates of one grid taken in path order
RECURSIVE ApplyUpdates(_, _, _, _, _)
ApplyUpdates(cells, gid, path, rotated, i) ==
  IF i > Len(path) THEN cells
  ELSE IF path[i].pos.g # gid THEN ApplyUpdates(cells, gid, path, rotated, i + 1)
  ELSE LET r == path[i].pos.r + 1
           c == path[i].pos.c + 1
       IN ApplyUpdates([cells EXCEPT ![r][c] = rotated[i]], gid, path, rotated, i + 1)

\* the dict that apply_push returns, given the dict value it copied
NewStoreValue(storeval, path) ==
  LET rotated == Rotated(path)
      updated == {path[i].pos.g : i \in 1..Len(path)}
  IN [i \in 1..Len(storeval) |->
        IF storeval[i].id \in updated
        THEN Grid(storeval[i].id,
                  ApplyUpdates(storeval[i].cells, storeval[i].id, path, rotated, 1))
        ELSE storeval[i]]

\* a slip: new_store = store, without .copy(): the writes land in the input dict
apply_push_nocopy(h, ref, path) ==
  [heap |-> [h EXCEPT ![ref] = NewStoreValue(h[ref], path)], ref |-> ref]

\* new_store = store.copy(); new_store[grid_id] = new_grid; return new_store.
\* h is the heap of dict objects, ref the dict passed in; the result names the
\* heap after the call and the dict returned.
apply_push(h, ref, path) ==
  [heap |-> Append(h, NewStoreValue(h[ref], path)), ref |-> Len(h) + 1]

(* ------------------------------- pull ---------------------------------- *)
RefStrategyType == {"SOLID", "PORTAL", "SWALLOW"}

\* the orders a RuleSet can hold
RuleSets ==
  {<<a, b, c>> : a \in RefStrategyType, b \in RefStrategyType, c \in RefStrategyType}
    \ {o \in RefStrategyType \X RefStrategyType \X RefStrategyType :
         o[1] = o[2] \/ o[1] = o[3] \/ o[2] = o[3]}
SolidFirst == <<"SOLID", "PORTAL", "SWALLOW">>
PortalFirst == <<"PORTAL", "SOLID", "SWALLOW">>

\* Navigator.try_advance past an edge: up through the primary reference of the
\* grid that is left, again from the parent if that lands outside it too;
\* NoPos at the root and when a reference comes up twice
RECURSIVE ExitCascade(_, _, _, _)
ExitCascade(store, direction, grid_id, seen) ==
  LET primary == find_primary_ref(store, grid_id)
  IN IF primary = NoPos \/ primary \in seen THEN NoPos
     ELSE LET parent == StoreGet(store, primary.g)
              r == primary.r + deltas(direction)[1]
              c == primary.c + deltas(direction)[2]
          IN IF OutOfBounds(parent, r, c)
             THEN ExitCascade(store, direction, primary.g, seen \cup {primary})
             ELSE CellPosition(primary.g, r, c)

\* Navigator.try_advance: the position it moves to, NoPos when it returns False
Navigator_advance(store, direction, pos) ==
  LET r == pos.r + deltas(direction)[1]
      c == pos.c + deltas(direction)[2]
  IN IF OutOfBounds(StoreGet(store, pos.g), r, c)
     THEN ExitCascade(store, direction, pos.g, {})
     ELSE CellPosition(pos.g, r, c)

\* Navigator.try_enter on the cell at pos: the entry cell of the grid it refers
\* to, NoPos when the cell is not a Ref.  In a grid of one row the edge has one
\* cell, so continuity and the middle of the edge name the same cell.
Navigator_enter(store, direction, pos) ==
  LET cell == get_cell(store, pos)
  IN IF IsRef(cell) THEN try_enter(store, cell.g, direction) ELSE NoPos

\* a strategy pull can apply to the cell T under the Navigator
PullApplicable(strategy, store, direction, pos) ==
  \/ strategy = "SOLID"
  \/ strategy = "PORTAL" /\ Navigator_enter(store, direction, pos) # NoPos

\* a slip: the last applicable strategy of the order is taken
FirstApplicable_last(order, store, direction, pos) ==
  LET ok == {i \in 1..Len(order) : PullApplicable(order[i], store, direction, pos)}
  IN IF ok = {} THEN "" ELSE order[CHOOSE i \in ok : \A j \in ok : j <= i]

\* the first strategy of the order that applies, SWALLOW never among them
FirstApplicable(order, store, direction, pos) ==
  LET ok == {i \in 1..Len(order) : PullApplicable(order[i], store, direction, pos)}
  IN IF ok = {} THEN "" ELSE order[CHOOSE i \in ok : \A j \in ok : i <= j]

\* a slip: pull walks from any start cell
pull_begin_anystart(store, start_pos, direction) ==
  LET first == Navigator_advance(store, direction, start_pos)
      x == [current |-> first, path |-> << [pos |-> start_pos, cell |-> get_cell(store, start_pos)] >>,
            visited |-> {start_pos}, depth |-> 0, why |-> ""]
  IN IF first = NoPos THEN [x EXCEPT !.current = start_pos, !.why = "BLOCKED"]
     ELSE x

\* pull up to its loop: the start must be Empty and the first step possible
pull_begin(store, start_pos, direction) ==
  LET first == Navigator_advance(store, direction, start_pos)
      x == [current |-> first, path |-> << [pos |-> start_pos, cell |-> get_cell(store, start_pos)] >>,
            visited |-> {start_pos}, depth |-> 0, why |-> ""]
  IN IF ~IsEmpty(get_cell(store, start_pos))
     THEN [x EXCEPT !.current = start_pos, !.why = "START_NOT_EMPTY"]
     ELSE IF first = NoPos THEN [x EXCEPT !.current = start_pos, !.why = "BLOCKED"]
     ELSE x

\* a slip: a position that comes up again does not end the walk
PullPass_revisits(store, stops, direction, order, max_d, x) ==
  LET T == get_cell(store, x.current)
      strategy == FirstApplicable(order, store, direction, x.current)
      seen == x.visited \cup {x.current}
  IN IF x.depth >= max_d THEN [x EXCEPT !.why = "MAX_DEPTH"]
     ELSE IF IsEmpty(T) THEN [x EXCEPT !.why = "EMPTY"]
     ELSE IF HitsStop(stops, T) THEN [x EXCEPT !.why = "STOP_TAG"]
     ELSE IF strategy = "SOLID"
     THEN LET next == Navigator_advance(store, direction, x.current)
          IN [current |-> IF next = NoPos THEN x.current ELSE next,
              path |-> Append(x.path, [pos |-> x.current, cell |-> T]),
              visited |-> seen, depth |-> x.depth + 1,
              why |-> IF next = NoPos THEN "EDGE" ELSE ""]
     ELSE IF strategy = "PORTAL"
     THEN [x EXCEPT !.current = Navigator_enter(store, direction, x.current),
                    !.visited = seen, !.depth = x.depth + 1]
     ELSE [x EXCEPT !.why = "NO_STRATEGY"]

\* one pass of pull's loop on the cell T under the Navigator: Empty, a stop
\* tag and a position seen before end the walk; SOLID takes T into the path
\* and advances, and the walk ends with T if it cannot; PORTAL enters T
PullPass(store, stops, direction, order, max_d, x) ==
  LET T == get_cell(store, x.current)
      strategy == FirstApplicable(order, store, direction, x.current)
      seen == x.visited \cup {x.current}
  IN IF x.depth >= max_d THEN [x EXCEPT !.why = "MAX_DEPTH"]
     ELSE IF IsEmpty(T) THEN [x EXCEPT !.why = "EMPTY"]
     ELSE IF HitsStop(stops, T) THEN [x EXCEPT !.why = "STOP_TAG"]
     ELSE IF x.current \in x.visited THEN [x EXCEPT !.why = "CYCLE"]
     ELSE IF strategy = "SOLID"
     THEN LET next == Navigator_advance(store, direction, x.current)
          IN [current |-> IF next = NoPos THEN x.current ELSE next,
              path |-> Append(x.path, [pos |-> x.current, cell |-> T]),
              visited |-> seen, depth |-> x.depth + 1,
              why |-> IF next = NoPos THEN "EDGE" ELSE ""]
     ELSE IF strategy = "PORTAL"
     THEN [x EXCEPT !.current = Navigator_enter(store, direction, x.current),
                    !.visited = seen, !.depth = x.depth + 1]
     ELSE [x EXCEPT !.why = "NO_STRATEGY"]

\* rotated = cells[1:] + [cells[0]]
RotatedPull(path) ==
  LET n == Len(path)
  IN [i \in 1..n |-> IF i = n THEN path[1].cell ELSE path[i + 1].cell]

\* a slip: the rotation of apply_push
apply_pull_pushwise(storeval, path) == NewStoreValue(storeval, path)

\* the store apply_pull builds: the writes grouped by grid as in apply_push
apply_pull(storeval, path) ==
  LET rotated == RotatedPull(path)
      updated == {path[i].pos.g : i \in 1..Len(path)}
  IN [i \in 1..Len(storeval) |->
        IF storeval[i].id \in updated
        THEN Grid(storeval[i].id,
                  ApplyUpdates(storeval[i].cells, storeval[i].id, path, rotated, 1))
        ELSE storeval[i]]

(* -------------------- push reporting a PushFailure --------------------- *)
PushFailure(reason, position) == [reason |-> reason, position |-> position]

\* Navigator.try_advance and try_enter on a Navigator record
\* whether it moved, and the Navigator afterwards
Cursor_moved(n, next) ==
  [ok |-> next # NoPos, nav |-> IF next = NoPos THEN n ELSE [n EXCEPT !.current = next]]
Cursor_advance(st, n) == Cursor_moved(n, Navigator_advance(st, n.direction, n.current))
Cursor_enter(st, n) == Cursor_moved(n, Navigator_enter(st, n.direction, n.current))
Cursor_flip(n) ==
  [n EXCEPT !.direction = CASE @ = "N" -> "S" [] @ = "S" -> "N"
                            [] @ = "E" -> "W" [] @ = "W" -> "E"]

\* a decision point, or the verdict on the target T under the Navigator
Decision(kind, p, n, strategies, seen, failure) ==
  [kind |-> kind, path |-> p, nav |-> n, strategies |-> strategies, visited |-> seen,
   failure |-> failure]

\* a slip: a target without strategies is reported as BLOCKED
decision_point_blocked(st, tags, rs, p, n, seen) ==
  LET T == get_cell(st, n.current)
      none == PushFailure("", NoPos)
      applies(strategy) ==
        CASE strategy = "SOLID" -> Cursor_advance(st, n).ok
          [] strategy = "PORTAL" -> IsRef(T)
          [] strategy = "SWALLOW" -> IsRef(p[Len(p)].cell)
          [] OTHER -> FALSE
      strategies == SelectSeq(rs, applies)
  IN IF IsEmpty(T) THEN Decision("succeed", p, n, <<>>, seen, none)
     ELSE IF HitsStop(tags, T)
     THEN Decision("fail", p, n, <<>>, seen, PushFailure("STOP_TAG", n.current))
     ELSE IF n.current \in seen
     THEN IF n.current = p[1].pos THEN Decision("succeed", p, n, <<>>, seen, none)
          ELSE Decision("fail", p, n, <<>>, seen, PushFailure("PATH_CYCLE", n.current))
     ELSE IF strategies = <<>>
     THEN Decision("fail", p, n, <<>>, seen, PushFailure("BLOCKED", n.current))
     ELSE Decision("state", p, n, strategies, seen \cup {n.current}, none)

\* the check at a decision point: Empty succeeds, a stop tag fails, a visited
\* position succeeds if it is the start and fails otherwise, then the
\* applicable strategies in rule order, NO_STRATEGY if there is none
decision_point(st, tags, rs, p, n, seen) ==
  LET T == get_cell(st, n.current)
      none == PushFailure("", NoPos)
      applies(strategy) ==
        CASE strategy = "SOLID" -> Cursor_advance(st, n).ok
          [] strategy = "PORTAL" -> IsRef(T)
          [] strategy = "SWALLOW" -> IsRef(p[Len(p)].cell)
          [] OTHER -> FALSE
      strategies == SelectSeq(rs, applies)
  IN IF IsEmpty(T) THEN Decision("succeed", p, n, <<>>, seen, none)
     ELSE IF HitsStop(tags, T)
     THEN Decision("fail", p, n, <<>>, seen, PushFailure("STOP_TAG", n.current))
     ELSE IF n.current \in seen
     THEN IF n.current = p[1].pos THEN Decision("succeed", p, n, <<>>, seen, none)
          ELSE Decision("fail", p, n, <<>>, seen, PushFailure("PATH_CYCLE", n.current))
     ELSE IF strategies = <<>>
     THEN Decision("fail", p, n, <<>>, seen, PushFailure("NO_STRATEGY", n.current))
     ELSE Decision("state", p, n, strategies, seen \cup {n.current}, none)

\* a strategy applied to T: SOLID takes T into the path and advances, PORTAL
\* enters T, SWALLOW takes T into the path, turns round, steps back onto S and
\* enters it
apply_strategy(st, p, n, strategy) ==
  LET taken == Append(p, [pos |-> n.current, cell |-> get_cell(st, n.current)])
  IN CASE strategy = "SOLID" ->
            LET adv == Cursor_advance(st, n)
            IN [ok |-> adv.ok, path |-> taken, nav |-> adv.nav]
       [] strategy = "PORTAL" ->
            LET ent == Cursor_enter(st, n)
            IN [ok |-> ent.ok, path |-> p, nav |-> ent.nav]
       [] strategy = "SWALLOW" ->
            LET adv == Cursor_advance(st, Cursor_flip(n))
                ent == Cursor_enter(st, adv.nav)
            IN [ok |-> adv.ok /\ ent.ok, path |-> taken, nav |-> ent.nav]

\* the state of push: kind "search" while the stack of decision points is
\* searched, "succeed" with the path to apply, "fail" with the failure to
\* report; last is the most recent failure
PushState(kind, p, stack, failure, steps) ==
  [kind |-> kind, path |-> p, stack |-> stack, failure |-> failure, steps |-> steps]

\* after the check at the new decision point
SearchDecided(st, rest, done, next, last, steps) ==
  IF next.kind = "succeed"
  THEN PushState("succeed",
                 Append(done.path, [pos |-> done.nav.current,
                                    cell |-> get_cell(st, done.nav.current)]),
                 <<>>, PushFailure("", NoPos), steps + 1)
  ELSE IF next.kind = "fail" THEN PushState("search", <<>>, rest, next.failure, steps + 1)
  ELSE PushState("search", <<>>, Append(rest, next), last, steps + 1)

\* after the strategy was applied
SearchApplied(st, tags, rs, top, rest, done, last, steps) ==
  IF ~done.ok
  THEN PushState("search", <<>>, rest, PushFailure("NO_STRATEGY", top.nav.current), steps + 1)
  ELSE SearchDecided(st, rest, done,
                     decision_point(st, tags, rs, done.path, done.nav, top.visited),
                     last, steps)

\* the top of the stack: popped when it has no strategy left
SearchTop(st, tags, rs, max_d, top, below, last, steps) ==
  IF top.strategies = <<>> THEN PushState("search", <<>>, below, last, steps)
  ELSE IF steps >= max_d
  THEN PushState("fail", <<>>, <<>>, PushFailure("MAX_DEPTH", top.nav.current), steps)
  ELSE SearchApplied(st, tags, rs, top,
                     Append(below, [top EXCEPT !.strategies = Tail(@)]),
                     apply_strategy(st, top.path, top.nav, Head(top.strategies)),
                     last, steps)

\* one pass of the search over the stack of decision points; with the stack
\* empty the most recent failure is reported
search(st, tags, rs, max_d, x) ==
  IF x.stack = <<>> THEN PushState("fail", <<>>, <<>>, x.failure, x.steps)
  ELSE SearchTop(st, tags, rs, max_d, x.stack[Len(x.stack)],
                 SubSeq(x.stack, 1, Len(x.stack) - 1), x.failure, x.steps)

\* after the first step
PushFirst(st, sp, first, dp) ==
  IF dp.kind = "succeed"
  THEN PushState("succeed", << [pos |-> sp, cell |-> get_cell(st, sp)],
                              [pos |-> first.nav.current,
                               cell |-> get_cell(st, first.nav.current)] >>,
                 <<>>, PushFailure("", NoPos), 0)
  ELSE IF dp.kind = "fail" THEN PushState("fail", <<>>, <<>>, dp.failure, 0)
  ELSE PushState("search", <<>>, << dp >>, PushFailure("", NoPos), 0)

PushStepped(st, tags, sp, rs, first) ==
  IF ~first.ok THEN PushState("fail", <<>>, <<>>, PushFailure("BLOCKED", sp), 0)
  ELSE PushFirst(st, sp, first,
                 decision_point(st, tags, rs, << [pos |-> sp, cell |-> get_cell(st, sp)] >>,
                                first.nav, {sp}))

\* push up to the search: the stop tag of the start, the first step, the first
\* decision point
push_reporting(st, tags, sp, d, rs) ==
  IF HitsStop(tags, get_cell(st, sp))
  THEN PushState("fail", <<>>, <<>>, PushFailure("STOP_TAG", sp), 0)
  ELSE PushStepped(st, tags, sp, rs, Cursor_advance(st, [current |-> sp, direction |-> d]))

(* --------------------- fractions.Fraction arithmetic ------------------- *)
\* a Fraction is kept in lowest terms with a positive denominator, as Python
\* keeps it, so that equal fractions are equal records
AbsInt(x) == IF x < 0 THEN -x ELSE x
RECURSIVE GCD(_, _)
GCD(a, b) == IF b = 0 THEN a ELSE GCD(b, a % b)
Fraction(n, d) ==
  LET g == GCD(AbsInt(n), AbsInt(d))
      sgn == IF d < 0 THEN -1 ELSE 1
  IN [n |-> (sgn * n) \div g, d |-> (sgn * d) \div g]
FrAdd(a, b) == Fraction(a.n * b.d + b.n * a.d, a.d * b.d)
FrSub(a, b) == Fraction(a.n * b.d - b.n * a.d, a.d * b.d)
FrMul(a, b) == Fraction(a.n * b.n, a.d * b.d)
FrDiv(a, b) == Fraction(a.n * b.d, a.d * b.n)
FrLess(a, b) == a.n * b.d < b.n * a.d
FrAbs(a) == [n |-> AbsInt(a.n), d |-> a.d]

(* ---------------------------- ancestor_entry --------------------------- *)
compute_cell_center_fraction(cell_index, dimension) ==
  Fraction(cell_index + 1, dimension + 1)

\* <<start, end>>: the midpoints to the neighbouring centres, 0 and 1 at the ends
compute_cell_extent(cell_index, dimension) ==
  IF dimension = 1 THEN << Fraction(0, 1), Fraction(1, 1) >>
  ELSE LET start == IF cell_index = 0 THEN Fraction(0, 1)
                    ELSE FrDiv(FrAdd(Fraction(cell_index, dimension + 1),
                                     Fraction(cell_index + 1, dimension + 1)),
                               Fraction(2, 1))
           end == IF cell_index = dimension - 1 THEN Fraction(1, 1)
                  ELSE FrDiv(FrAdd(Fraction(cell_index + 1, dimension + 1),
                                   Fraction(cell_index + 2, dimension + 1)),
                             Fraction(2, 1))
       IN << start, end >>

map_fraction_through_parent(local_fraction, parent_cell_index, parent_dimension) ==
  LET extent == compute_cell_extent(parent_cell_index, parent_dimension)
  IN FrAdd(extent[1], FrMul(local_fraction, FrSub(extent[2], extent[1])))

\* a slip: the offset into the parent cell is not scaled by its extent
map_fraction_to_child_unscaled(parent_fraction, parent_cell_index, parent_dimension) ==
  LET ce == compute_cell_extent(parent_cell_index, parent_dimension)
      extent == FrSub(ce[2], ce[1])
  IN IF extent = Fraction(0, 1) THEN Fraction(1, 2)
     ELSE LET local == FrSub(parent_fraction, ce[1])
          IN IF FrLess(local, Fraction(0, 1)) THEN Fraction(0, 1)
             ELSE IF FrLess(Fraction(1, 1), local) THEN Fraction(1, 1)
             ELSE local

map_fraction_to_child(parent_fraction, parent_cell_index, parent_dimension) ==
  LET ce == compute_cell_extent(parent_cell_index, parent_dimension)
      extent == FrSub(ce[2], ce[1])
  IN IF extent = Fraction(0, 1) THEN Fraction(1, 2)
     ELSE LET local == FrDiv(FrSub(parent_fraction, ce[1]), extent)
          IN IF FrLess(local, Fraction(0, 1)) THEN Fraction(0, 1)
             ELSE IF FrLess(Fraction(1, 1), local) THEN Fraction(1, 1)
             ELSE local

\* "for i in range(dimension)": the best index so far is replaced only by a
\* strictly smaller distance
RECURSIVE NearestLoop(_, _, _, _, _)
NearestLoop(fraction, dimension, i, best_index, best_distance) ==
  IF i >= dimension THEN best_index
  ELSE LET distance == FrAbs(FrSub(fraction, compute_cell_center_fraction(i, dimension)))
       IN IF FrLess(distance, best_distance)
          THEN NearestLoop(fraction, dimension, i + 1, i, distance)
          ELSE NearestLoop(fraction, dimension, i + 1, best_index, best_distance)

find_nearest_cell(fraction, dimension) ==
  IF dimension = 1 THEN 0
  ELSE NearestLoop(fraction, dimension, 0, 0,
                   FrAbs(FrSub(fraction, compute_cell_center_fraction(0, dimension))))

\* getattr(grid, dimension_attr)
Dimension(grid, dimension_attr) ==
  IF dimension_attr = "rows" THEN rows(grid) ELSE cols(grid)
\* ref_row if dimension_attr == 'rows' else ref_col
RefIndex(ref, dimension_attr) == IF dimension_attr = "rows" THEN ref.r ELSE ref.c

\* the "while True" of compute_exit_ancestor_fraction; stop_at_ancestor = ""
\* stands for None.  The result is [fraction, ancestor].
RECURSIVE ExitFractionLoop(_, _, _, _, _)
ExitFractionLoop(store, dimension_attr, stop_at_ancestor, fraction, current_grid_id) ==
  IF stop_at_ancestor # "" /\ current_grid_id = stop_at_ancestor
  THEN [fraction |-> fraction, ancestor |-> current_grid_id]
  ELSE LET ref == find_primary_ref(store, current_grid_id)
       IN IF ref = NoPos THEN [fraction |-> fraction, ancestor |-> current_grid_id]
          ELSE ExitFractionLoop(store, dimension_attr, stop_at_ancestor,
                 map_fraction_through_parent(fraction, RefIndex(ref, dimension_attr),
                     Dimension(StoreGet(store, ref.g), dimension_attr)),
                 ref.g)

compute_exit_ancestor_fraction(store, grid_id, cell_index, dimension_attr, stop_at_ancestor) ==
  ExitFractionLoop(store, dimension_attr, stop_at_ancestor,
    compute_cell_center_fraction(cell_index,
                                 Dimension(StoreGet(store, grid_id), dimension_attr)),
    grid_id)

\* the path from the target up to the ancestor, already reversed: the hop
\* nearest to the ancestor comes first
RECURSIVE EntryPath(_, _, _, _)
EntryPath(store, ancestor_grid_id, current, path) ==
  IF ancestor_grid_id # "" /\ current = ancestor_grid_id THEN path
  ELSE LET ref == find_primary_ref(store, current)
       IN IF ref = NoPos THEN path
          ELSE EntryPath(store, ancestor_grid_id, ref.g, << ref >> \o path)

RECURSIVE EntryDown(_, _, _, _, _)
EntryDown(store, dimension_attr, path, i, fraction) ==
  IF i > Len(path) THEN fraction
  ELSE EntryDown(store, dimension_attr, path, i + 1,
         map_fraction_to_child(fraction, RefIndex(path[i], dimension_attr),
             Dimension(StoreGet(store, path[i].g), dimension_attr)))

compute_entry_from_ancestor_fraction(store, target_grid_id, ancestor_fraction, dimension_attr, ancestor_grid_id) ==
  find_nearest_cell(
    EntryDown(store, dimension_attr,
              EntryPath(store, ancestor_grid_id, target_grid_id, <<>>), 1,
              ancestor_fraction),
    Dimension(StoreGet(store, target_grid_id), dimension_attr))

\* one pass of the "while True" of compute_exit_ancestor_fraction, x being
\* its locals: the loop returns, or climbs through the primary reference ref
ExitFractionClimb(st, dimension_attr, x, ref) ==
  IF ref = NoPos THEN [x EXCEPT !.returned = TRUE]
  ELSE [x EXCEPT !.fraction = map_fraction_through_parent(@, RefIndex(ref, dimension_attr),
                                  Dimension(StoreGet(st, ref.g), dimension_attr)),
                 !.current = ref.g, !.passes = @ + 1]
ExitFractionPass(st, dimension_attr, stop_at_ancestor, x) ==
  IF stop_at_ancestor # "" /\ x.current = stop_at_ancestor THEN [x EXCEPT !.returned = TRUE]
  ELSE ExitFractionClimb(st, dimension_attr, x, find_primary_ref(st, x.current))

\* one pass of the "while True" of compute_entry_from_ancestor_fraction: the
\* loop is left, or the hop through ref is put on the path
EntryPathClimb(x, ref) ==
  IF ref = NoPos THEN [x EXCEPT !.returned = TRUE]
  ELSE [x EXCEPT !.path = << ref >> \o @, !.current = ref.g, !.passes = @ + 1]
EntryPathPass(st, ancestor_grid_id, x) ==
  IF ancestor_grid_id # "" /\ x.current = ancestor_grid_id THEN [x EXCEPT !.returned = TRUE]
  ELSE EntryPathClimb(x, find_primary_ref(st, x.current))

\* the axis along the edge crossed when travelling in direction d
EdgeAttr(d) == IF d \in {"E", "W"} THEN "rows" ELSE "cols"

(* --------------------------- depth_aware_entry ------------------------- *)
\* the float exit_offset / (edge_dimension - 1), kept as the exact quotient
calculate_exit_fraction(direction, current_row, current_col, grid_rows, grid_cols) ==
  LET edge_dimension == IF direction \in {"E", "W"} THEN grid_rows ELSE grid_cols
      exit_offset == IF direction \in {"E", "W"} THEN current_row ELSE current_col
  IN IF edge_dimension > 1 THEN Fraction(exit_offset, edge_dimension - 1)
     ELSE Fraction(1, 2)

\* Python's round(): to the nearest integer, a half to the even one
PyRound(x) ==
  LET fl == x.n \div x.d
      twice == 2 * (x.n - fl * x.d)
  IN IF twice < x.d THEN fl
     ELSE IF twice > x.d THEN fl + 1
     ELSE IF fl % 2 = 0 THEN fl ELSE fl + 1

calculate_entry_index_unscaled(exit_fraction, entry_dimension) ==
  IF entry_dimension > 1
  THEN PyRound(FrMul(exit_fraction, Fraction(entry_dimension, 1)))
  ELSE 0

calculate_entry_index(exit_fraction, entry_dimension) ==
  IF entry_dimension > 1
  THEN PyRound(FrMul(exit_fraction, Fraction(entry_dimension - 1, 1)))
  ELSE 0

calculate_entry_position_equivalent_point(direction, exit_fraction, grid_rows, grid_cols) ==
  CASE direction = "E" -> << calculate_entry_index(exit_fraction, grid_rows), 0 >>
    [] direction = "W" ->
         << calculate_entry_index(exit_fraction, grid_rows), grid_cols - 1 >>
    [] direction = "S" -> << 0, calculate_entry_index(exit_fraction, grid_cols) >>
    [] direction = "N" ->
         << grid_rows - 1, calculate_entry_index(exit_fraction, grid_cols) >>

calculate_standard_entry_position(direction, grid_rows, grid_cols) ==
  CASE direction = "E" -> << grid_rows \div 2, 0 >>
    [] direction = "W" -> << grid_rows \div 2, grid_cols - 1 >>
    [] direction = "S" -> << 0, grid_cols \div 2 >>
    [] direction = "N" -> << grid_rows - 1, grid_cols \div 2 >>

\* try_enter with continuity: the index along the entry edge is put on the
\* edge for the direction, the left or right one for E/W, the top or bottom
\* one for N/S
EntryOnEdge(direction, index, grid_rows, grid_cols) ==
  CASE direction = "E" -> << index, 0 >>
    [] direction = "W" -> << index, grid_cols - 1 >>
    [] direction = "S" -> << 0, index >>
    [] direction = "N" -> << grid_rows - 1, index >>

\* a store of one grid of the given size, all cells Empty
EntryStore(grid_rows, grid_cols) ==
  << Grid("target", [r \in 1..grid_rows |-> [c \in 1..grid_cols |-> Empty]]) >>

(* --------------------------- generated inputs -------------------------- *)
Kinds == {"E", "C", "S", "Rm", "Ra"}
KindsNoA == {"E", "C", "S", "Rm"}

\* the cell of kind k at column j (1-based) of grid gid; Concrete ids are
\* distinct per position so that a moved cell can be told from its neighbours
IdOf(gid, j) == IF gid = "main" THEN j ELSE 10 + j
MkCell(k, gid, j) ==
  CASE k = "E" -> Empty
    [] k = "C" -> Concrete(IdOf(gid, j))
    [] k = "S" -> Concrete(IdOf(gid, j))
    [] k = "Rm" -> Ref("main")
    [] k = "Ra" -> Ref("a")

RowGrid(gid, ks) == Grid(gid, << [j \in 1..Len(ks) |-> MkCell(ks[j], gid, j)] >>)
StopsOf(gid, ks) == {IdOf(gid, j) : j \in {i \in 1..Len(ks) : ks[i] = "S"}}

KindRows(n, K) == UNION {[1..w -> K] : w \in 1..n}

\* a store with its tag function: [store, stops]
OneGridInputs ==
  {[store |-> << RowGrid("main", km) >>, stops |-> StopsOf("main", km)] :
     km \in KindRows(MaxCols, KindsNoA)}
\* two grids with a reference from one to the other
HasKind(ks, k) == \E j \in 1..Len(ks) : ks[j] = k
TwoGridInputs ==
  {[store |-> << RowGrid("main", ks[1]), RowGrid("a", ks[2]) >>,
    stops |-> StopsOf("main", ks[1]) \cup StopsOf("a", ks[2])] :
     ks \in {x \in KindRows(MaxCols, Kinds) \X KindRows(MaxInner, Kinds) :
               HasKind(x[1], "Ra") \/ HasKind(x[2], "Rm")}}

\* stores of the tests that need more than one row or an explicit primary mark
\* test_stop_tagged_cell_cannot_push_itself: "inner 9|main _", inner "9"
StoreStopSelf ==
  << Grid("main", << <<Ref("a"), Concrete(9)>>, <<Ref("main"), Empty>> >>),
     Grid("a", << <<Concrete(19)>> >>) >>
\* test_push_2x2_grid_vertical: "1 2|_ 4"
Store2x2 ==
  << Grid("main", << <<Concrete(1), Concrete(2)>>, <<Empty, Concrete(4)>> >>) >>
\* test_push_with_valid_cycle: "*main 1 2"
StoreValidCycle ==
  << Grid("main", << <<RefP("main", "true"), Concrete(1), Concrete(2)>> >>) >>
\* test_push_with_entry_cycle: main "1 *a", a "~a"
StoreEntryCycle ==
  << Grid("main", << <<Concrete(1), RefP("a", "true")>> >>),
     Grid("a", << <<RefP("a", "false")>> >>) >>
\* a self-containing 2x2 grid
StoreSelf2x2 ==
  << Grid("main", << <<Ref("main"), Concrete(1)>>, <<Concrete(3), Concrete(2)>> >>) >>
\* a column of cells through a two-row inner grid
StoreColumn ==
  << Grid("main", << <<Concrete(1)>>, <<Ref("a")>>, <<Empty>> >>),
     Grid("a", << <<Concrete(11)>>, <<Concrete(12)>> >>) >>

\* a Ref with a cell on each side, over a 2x2 grid
StoreCross ==
  << Grid("main", << <<Empty, Concrete(2), Empty>>,
                     <<Concrete(4), Ref("a"), Concrete(6)>>,
                     <<Empty, Concrete(8), Empty>> >>),
     Grid("a", << <<Concrete(11), Empty>>, <<Concrete(12), Empty>> >>) >>

\* test_push_through_portal and, with the last cell of the inner grid tagged
\* "stop", test_backtrack_on_stop_inside_ref: main "A inner _", inner "X Y"
StorePortal ==
  << Grid("main", << <<Concrete(1), Ref("a"), Empty>> >>),
     Grid("a", << <<Concrete(11), Concrete(12)>> >>) >>
\* test_swallow_basic_eastward: main "pocket ball _", pocket "_ _"
StoreSwallow ==
  << Grid("main", << <<Ref("a"), Concrete(2), Empty>> >>),
     Grid("a", << <<Empty, Empty>> >>) >>
\* a Ref whose grid holds only a reference back to the grid it lies in
StoreThrough ==
  << Grid("main", << <<Empty, Concrete(2), Ref("a")>> >>),
     Grid("a", << <<Ref("main")>> >>) >>
\* two grids of references around one Concrete cell
StoreRefs ==
  << Grid("main", << <<Concrete(1), Ref("a"), Ref("main")>> >>),
     Grid("a", << <<Ref("a"), Ref("a")>> >>) >>
\* test_standard_entry_when_no_prior_exit: main "9 A _|_ _ _|_ _ _",
\* A "1 2 3|4 5 6|7 8 9"
StoreStandardEntry ==
  << Grid("main", << << Concrete(9), Ref("A"), Empty >>,
                     << Empty, Empty, Empty >>,
                     << Empty, Empty, Empty >> >>),
     Grid("A", << << Concrete(1), Concrete(2), Concrete(3) >>,
                  << Concrete(4), Concrete(5), Concrete(6) >>,
                  << Concrete(7), Concrete(8), Concrete(9) >> >>) >>

TestInputs ==
  { [store |-> StoreStopSelf, stops |-> {9, 19}],
    [store |-> StoreStopSelf, stops |-> {}],
    [store |-> Store2x2, stops |-> {}],
    [store |-> StoreValidCycle, stops |-> {}],
    [store |-> StoreEntryCycle, stops |-> {}],
    [store |-> StoreSelf2x2, stops |-> {}],
    [store |-> StoreColumn, stops |-> {}],
    [store |-> StoreColumn, stops |-> {12}],
    [store |-> StoreCross, stops |-> {}],
    [store |-> StorePortal, stops |-> {}],
    [store |-> StorePortal, stops |-> {12}],
    [store |-> StoreSwallow, stops |-> {}],
    [store |-> StoreSwallow, stops |-> {2}],
    [store |-> StoreThrough, stops |-> {}],
    [store |-> StoreRefs, stops |-> {}],
    [store |-> StoreStandardEntry, stops |-> {}] }

Inputs == OneGridInputs \cup TwoGridInputs \cup TestInputs

\* the stores of TestDepthAwareEntry: main holds Ref(A) and Ref(B) side by side
\* in its top row, A is one column of Concrete cells, B is "_ n" in every row
ColumnOf(h, base) == [r \in 1..h |-> << Concrete(base + r) >>]
SiblingStore(pr, ha, hb) ==
  << Grid("main", [r \in 1..pr |-> IF r = 1 THEN << Ref("A"), Ref("B") >>
                                    ELSE << Empty, Empty >>]),
     Grid("A", ColumnOf(ha, 100)),
     Grid("B", [r \in 1..hb |-> << Empty, Concrete(200 + r) >>]) >>
\* the stores of TestFindPrimaryRef: "inner" of one cell, then "outer" of one or
\* two rows and at most MaxCols + 2 cells, whose cells are Concrete or
\* references, marked or not
PrimaryKinds == {"C", "Rn", "Rt", "Rf", "Ro"}
MkPrimaryCell(k, id) ==
  CASE k = "C" -> Concrete(id)
    [] k = "Rn" -> Ref("inner")
    [] k = "Rt" -> RefP("inner", "true")
    [] k = "Rf" -> RefP("inner", "false")
    [] k = "Ro" -> Ref("outer")
PrimaryGrid(gid, nr, nc, f) ==
  Grid(gid, [r \in 1..nr |-> [c \in 1..nc |-> MkPrimaryCell(f[<<r, c>>], 10 * r + c)]])
PrimaryStore(nr, nc, fi, fo) ==
  << PrimaryGrid("inner", 1, 1, fi), PrimaryGrid("outer", nr, nc, fo) >>

SiblingInputs ==
  {[store |-> SiblingStore(pr, ha, hb), stops |-> {}] :
     pr \in {1, MaxRows}, ha \in 1..MaxRows, hb \in 1..MaxRows}

\* one-row stores are pushed along the row, the others in all four directions
DirectionsFor(storeval) ==
  IF \A i \in 1..Len(storeval) : rows(storeval[i]) = 1 THEN {"E", "W"} ELSE Direction

Positions(storeval) == {ScanOrder(storeval)[i] : i \in 1..Len(ScanOrder(storeval))}

\* the stores of TestPull
StorePullSimple == << Grid("main", << <<Empty, Concrete(1), Concrete(2)>> >>) >>
StorePullChain == << Grid("main", << <<Empty, Concrete(1), Concrete(2), Concrete(3)>> >>) >>
StorePullGap == << Grid("main", << <<Empty, Concrete(1), Empty, Concrete(2)>> >>) >>
StorePullStop == << Grid("main", << <<Empty, Concrete(1), Concrete(9), Concrete(2)>> >>) >>
StorePullFar == << Grid("main", << <<Empty, Empty, Concrete(1)>> >>) >>
StorePullRef ==
  << Grid("main", << <<Empty, Ref("inner"), Concrete(1)>> >>),
     Grid("inner", << <<Concrete(11), Concrete(12)>> >>) >>
StorePullLoop ==
  << Grid("main", << <<Empty, Ref("loop")>> >>),
     Grid("loop", << <<Concrete(1), Ref("loop")>> >>) >>

PullTestInputs ==
  {[store |-> StorePullSimple, stops |-> {}], [store |-> StorePullChain, stops |-> {}],
   [store |-> StorePullGap, stops |-> {}], [store |-> StorePullStop, stops |-> {9}],
   [store |-> StorePullFar, stops |-> {}], [store |-> StorePullRef, stops |-> {}],
   [store |-> StorePullLoop, stops |-> {}]}

\* the grids put behind the references to a
PullInner == {<<"C", "C">>, <<"E", "C">>, <<"Rm">>}

\* rows of MaxPull cells
PullRowInputs ==
  {[store |-> << RowGrid("main", ks) >>, stops |-> StopsOf("main", ks)] :
     ks \in [1..MaxPull -> KindsNoA]}
    \cup {[store |-> << RowGrid("main", ks), RowGrid("a", ka) >>,
            stops |-> StopsOf("main", ks)] :
            ks \in {k \in [1..MaxPull -> Kinds] : HasKind(k, "Ra")}, ka \in PullInner}

\* pull is run along the row of stores whose grids have one row
PullInputs ==
  {inp \in TestInputs \cup PullTestInputs \cup PullRowInputs :
     DirectionsFor(inp.store) = {"E", "W"}}

(* ------------------------------- state --------------------------------- *)
\* a grid entered through a secondary reference while its primary reference
\* lies in the grid itself: main "inner ~t", inner "1", t "*t 5"
StoreSecondarySelf ==
  << Grid("main", << <<Ref("inner"), RefP("t", "false")>> >>),
     Grid("inner", << <<Concrete(1)>> >>),
     Grid("t", << <<RefP("t", "true"), Concrete(5)>> >>) >>
\* a grid entered through a secondary reference, its primary reference in a
\* sibling: main "inner ~t a", inner "1", a "*t", t "5"
StoreSecondarySibling ==
  << Grid("main", << <<Ref("inner"), RefP("t", "false"), Ref("a")>> >>),
     Grid("inner", << <<Concrete(1)>> >>),
     Grid("a", << <<RefP("t", "true")>> >>),
     Grid("t", << <<Concrete(5)>> >>) >>
ClimbInputs ==
  PullInputs \cup {[store |-> StoreSecondarySelf, stops |-> {}],
                   [store |-> StoreSecondarySibling, stops |-> {}]}

VARIABLES
  heap,       \* the dict objects: heap[ref] is the content of dict ref
  store,      \* the dict passed to push (a reference into heap)
  stops,      \* the ids tag_fn tags with "stop"
  start, direction, rules,   \* the other arguments of push
  pc,         \* "idle", "loop", "finish", "done"
  current, path, visited, decision_stack, alternative_strategy_refs,
  depth, backtrack_count, skip_movement,   \* locals of push_traverse_backtracking
  reason,     \* the TerminationReason it returned, "TypeError" when it raised
  result,     \* what push returned: a dict reference, 0 for None, -1 if it raised
  store0,     \* the content of the input dict when push was called
  \* the strategy search of src/test_push_sketch.py
  ref_strategy,        \* rules['ref_strategy']
  sk_decision_stack,   \* its decision_stack: a sequence of State records
  nav, sk_strategy, new_path,   \* locals of the last iteration of its loop
  sk_result,           \* what it returned: [path, result], result "AssertionError" if it raised
  \* _follow_exit_chain run pass by pass
  ex_pc,               \* "idle", "chain" (at the loop head) or "done"
  ex_direction,        \* its direction argument
  ex,                  \* its locals: [visited, current, depth] and what it returned
  ex_exit_pos,         \* its exit_pos argument
  \* the entry mapper run on an exit from A followed by an entry into B
  mp_pc,               \* "idle", "exited" or "entered"
  mp_row,              \* the row of A the exit is made from
  mp_exit,             \* what compute_exit_ancestor_fraction returned
  mp_entry,            \* what compute_entry_from_ancestor_fraction returned
  mp_equivalent,       \* what calculate_entry_index returned for the same exit
  \* a fraction taken up through a chain of parent cells and down again
  rt_pc,               \* "idle", "up", "down" or "done"
  rt_cell,             \* [index, dimension] of the cell the fraction starts from
  rt_chain,            \* the hops taken upward: [index, dimension] of each parent cell
  rt_level,            \* how many of them the fraction is above its own grid
  rt_fraction,         \* the fraction, in the coordinates of that level
  rt_index,            \* what find_nearest_cell returned at the end
  \* find_primary_ref called on its own
  fp_pc,               \* "idle" or "done"
  fp_target,           \* its target_grid_id argument
  fp_result,           \* what it returned, NoPos for None
  \* pull
  pl_pc,               \* "idle", "walk", "apply" or "done"
  pl_start, pl_direction, pl_rules, pl_max_depth,   \* its arguments
  pl,                  \* its locals: [current, path, visited, depth] and why the walk ended
  pl_result,           \* the store it returned
  \* push reporting a PushFailure
  pf_result,           \* its search state and what it returned: [kind, path, stack, failure, steps]
  \* the continuity computation of one entry after an exit
  cl_pc,               \* "idle", "up", "path", "down", "done"
  cl,                  \* the exit, the ancestor, the target and the locals of the loops
  \* a push and the push of the rotated problem
  ro_pc,               \* "idle", "called" or "done"
  ro,                  \* the operation, its arguments and the two outcomes
  \* an entry position computed on its own
  en_pc,               \* "idle", "sized" or "done"
  en                   \* the grid size, the direction, the fraction and the position

vars == <<heap, store, stops, start, direction, rules, pc, current, path, visited,
          decision_stack, alternative_strategy_refs, depth, backtrack_count,
          skip_movement, reason, result, store0,
          ref_strategy, sk_decision_stack, nav, sk_strategy, new_path, sk_result,
          ex_pc, ex_direction, ex, ex_exit_pos,
          mp_pc, mp_row, mp_exit, mp_entry, mp_equivalent,
          rt_pc, rt_cell, rt_chain, rt_level, rt_fraction, rt_index,
          fp_pc, fp_target, fp_result,
          pl_pc, pl_start, pl_direction, pl_rules, pl_max_depth, pl, pl_result,
          pf_result, cl_pc, cl, ro_pc, ro, en_pc, en>>

locals == <<current, path, visited, decision_stack, alternative_strategy_refs,
            depth, backtrack_count, skip_movement>>

sketch_vars == <<ref_strategy, sk_decision_stack, nav, sk_strategy, new_path, sk_result>>

exit_vars == <<ex_pc, ex_direction, ex, ex_exit_pos>>
\* the variables of the functions that are run on their own
mapper_vars == <<mp_pc, mp_row, mp_exit, mp_entry, mp_equivalent>>
trip_vars == <<rt_pc, rt_cell, rt_chain, rt_level, rt_fraction, rt_index>>
primary_vars == <<fp_pc, fp_target, fp_result>>
pull_vars == <<pl_pc, pl_start, pl_direction, pl_rules, pl_max_depth, pl, pl_result>>
report_vars == <<pf_result>>
climb_vars == <<cl_pc, cl>>
rotation_vars == <<ro_pc, ro>>
entry_vars == <<en_pc, en>>
other_vars_but_climb_rotation == <<exit_vars, mapper_vars, trip_vars, primary_vars, pull_vars, report_vars>>
other_vars_but_climb == <<exit_vars, mapper_vars, trip_vars, primary_vars, pull_vars, report_vars, rotation_vars, entry_vars>>
other_vars == <<exit_vars, mapper_vars, trip_vars, primary_vars, pull_vars, report_vars, climb_vars, rotation_vars, entry_vars>>

S == heap[store]

InitWith(inp) ==
  /\ heap = << inp.store >> /\ stops = inp.stops /\ store0 = inp.store
  /\ store = 1
  /\ start = NoPos /\ direction = "E" /\ rules = "PUSH_FIRST"
  /\ pc = "idle"
  /\ current = NoPos /\ path = <<>> /\ visited = {} /\ decision_stack = <<>>
  /\ alternative_strategy_refs = <<>>
  /\ depth = 0 /\ backtrack_count = 0 /\ skip_movement = FALSE
  /\ reason = "" /\ result = 0
  /\ ref_strategy = <<>> /\ sk_decision_stack = <<>>
  /\ nav = [current |-> NoPos, direction |-> "E"]
  /\ sk_strategy = "" /\ new_path = <<>>
  /\ sk_result = [path |-> <<>>, result |-> ""]
  /\ ex_pc = "idle" /\ ex_direction = "E" /\ ex_exit_pos = NoPos
  /\ ex = [visited |-> {}, current |-> NoPos, depth |-> 0,
           ret |-> "", pos |-> NoPos, cycle |-> FALSE]
  /\ mp_pc = "idle" /\ mp_row = 0
  /\ mp_exit = [fraction |-> Fraction(0, 1), ancestor |-> ""]
  /\ mp_entry = 0 /\ mp_equivalent = 0
  /\ rt_pc = "idle" /\ rt_cell = [index |-> 0, dimension |-> 1] /\ rt_chain = <<>>
  /\ rt_level = 0 /\ rt_fraction = Fraction(0, 1) /\ rt_index = 0
  /\ fp_pc = "idle" /\ fp_target = "" /\ fp_result = NoPos
  /\ pl_pc = "idle" /\ pl_start = NoPos /\ pl_direction = "E" /\ pl_rules = <<>>
  /\ pl_max_depth = 0 /\ pl_result = <<>>
  /\ pl = [current |-> NoPos, path |-> <<>>, visited |-> {}, depth |-> 0, why |-> ""]
  /\ pf_result = [kind |-> "", path |-> <<>>, stack |-> <<>>, steps |-> 0,
                  failure |-> [reason |-> "", position |-> NoPos]]
  /\ cl_pc = "idle"
  /\ cl = [exit |-> NoPos, attr |-> "rows", ancestor |-> "", target |-> "", current |-> "",
           fraction |-> Fraction(0, 1), path |-> <<>>, passes |-> 0, returned |-> FALSE,
           index |-> 0]
  /\ ro_pc = "idle"
  /\ ro = [op |-> "", start |-> NoPos, direction |-> "E", rules |-> "",
           outcome |-> [turn \in 0..1 |-> [kind |-> "", reason |-> "", store |-> <<>>]]]
  /\ en_pc = "idle"
  /\ en = [rows |-> 1, cols |-> 1, direction |-> "E", by |-> "",
           fraction |-> Fraction(0, 1), position |-> NoPos]

Init == \E inp \in Inputs : InitWith(inp)

(* ---------------------- push_traverse_backtracking --------------------- *)
\* the part before the loop: the start cell's stop check, then path and
\* visited are seeded with start.  push is called with any start, direction
\* and rule set.
PushStart ==
  /\ pc = "idle"
  /\ \E st \in Positions(S), d \in DirectionsFor(S), rs \in RefStrategy :
       /\ start' = st /\ direction' = d /\ rules' = rs
       /\ store0' = S
       /\ current' = st
       /\ decision_stack' = <<>> /\ alternative_strategy_refs' = <<>>
       /\ depth' = 0 /\ backtrack_count' = 0 /\ skip_movement' = FALSE
       /\ IF HitsStop(stops, get_cell(S, st))
          THEN /\ path' = <<>> /\ visited' = {}
               /\ reason' = "STOP_TAG" /\ pc' = "finish"
          ELSE /\ path' = << [pos |-> st, cell |-> get_cell(S, st)] >>
               /\ visited' = {st}
               /\ reason' = "" /\ pc' = "loop"
  /\ UNCHANGED <<heap, store, stops, result, sketch_vars, other_vars>>

\* the locals as one record, ret = "" while the loop goes on
Locals ==
  [current |-> current, path |-> path, visited |-> visited,
   decision_stack |-> decision_stack, alt |-> alternative_strategy_refs,
   depth |-> depth, backtrack_count |-> backtrack_count,
   skip_movement |-> skip_movement, ret |-> ""]

DecisionPoint(ref_position, ref_cell, path_snapshot, visited_snapshot, depth_at, used) ==
  [ref_position |-> ref_position, ref_cell |-> ref_cell,
   path_snapshot |-> path_snapshot, visited_snapshot |-> visited_snapshot,
   depth_at_decision |-> depth_at, strategy_used |-> used]

SetAlt(alt, key, strategy) ==
  [k \in DOMAIN alt \cup {key} |-> IF k = key THEN strategy ELSE alt[k]]

\* decision = decision_stack.pop(); current, path, visited, depth =
\* _restore_from_decision(decision, alternative_strategy_refs); skip_movement = True
\* (with backtrack_count += 1 before it, as at every call site)
_restore_from_decision(l) ==
  LET decision == l.decision_stack[Len(l.decision_stack)]
      alternative == IF decision.strategy_used = "portal" THEN "solid" ELSE "portal"
  IN [l EXCEPT !.backtrack_count = @ + 1,
               !.decision_stack = SubSeq(@, 1, Len(@) - 1),
               !.alt = SetAlt(@, decision.ref_position, alternative),
               !.current = decision.ref_position,
               !.path = decision.path_snapshot,
               !.visited = decision.visited_snapshot,
               !.depth = decision.depth_at_decision,
               !.skip_movement = TRUE]

Return(l, why) == [l EXCEPT !.ret = why]

\* "if decision_stack and backtrack_count < max_backtrack_depth: ... continue
\*  else: return (path, why)"
BacktrackOr(l, why) ==
  IF l.decision_stack # <<>> /\ l.backtrack_count < max_backtrack_depth
  THEN _restore_from_decision(l)
  ELSE Return(l, why)

\* the movement part of one iteration (skip_movement false): the next
\* position, leaving the grid through its primary reference at an edge
Movement(st, d, md, l) ==
  LET grid == StoreGet(st, l.current.g)
      dr == deltas(d)[1]
      dc == deltas(d)[2]
      next_row == l.current.r + dr
      next_col == l.current.c + dc
  IN IF OutOfBounds(grid, next_row, next_col)
     THEN LET primary_ref == find_primary_ref(st, l.current.g)
          IN IF primary_ref = NoPos THEN Return(l, "EDGE_REACHED")
             ELSE LET parent_grid == StoreGet(st, primary_ref.g)
                      prow == primary_ref.r + dr
                      pcol == primary_ref.c + dc
                  IN IF OutOfBounds(parent_grid, prow, pcol)
                     THEN LET chain == _follow_exit_chain(st, primary_ref, d, md - l.depth)
                          IN IF chain.pos = NoPos THEN Return(l, "EDGE_REACHED")
                             ELSE IF chain.cycle THEN BacktrackOr(l, "EXIT_CYCLE_DETECTED")
                             ELSE LET next_grid == StoreGet(st, chain.pos.g)
                                      nrow == chain.pos.r + dr
                                      ncol == chain.pos.c + dc
                                  IN IF OutOfBounds(next_grid, nrow, ncol)
                                     THEN Return([l EXCEPT !.current = chain.pos],
                                                 "EDGE_REACHED")
                                     ELSE [l EXCEPT !.current =
                                             CellPosition(chain.pos.g, nrow, ncol)]
                     ELSE [l EXCEPT !.current = CellPosition(primary_ref.g, prow, pcol)]
     ELSE [l EXCEPT !.current = CellPosition(l.current.g, next_row, next_col)]

AppendPath(l, pos, cell) ==
  [l EXCEPT !.path = Append(@, [pos |-> pos, cell |-> cell]),
            !.visited = @ \cup {pos}]

\* strategy == "portal" with entry allowed: the decision point is pushed, the
\* enter chain followed, and its final cell appended
Portal(st, tags, d, md, l, cell, entry_pos) ==
  LET pushed == [l EXCEPT !.decision_stack =
                   Append(@, DecisionPoint(l.current, cell, l.path, l.visited,
                                           l.depth, "portal"))]
      chain == _follow_enter_chain(st, entry_pos, d, md - l.depth)
      retry(why) == IF pushed.backtrack_count < max_backtrack_depth
                    THEN _restore_from_decision(pushed)
                    ELSE Return(pushed, why)
  IN IF chain.pos = NoPos THEN retry("ENTRY_DENIED")
     ELSE IF chain.cycle THEN retry("ENTRY_CYCLE_DETECTED")
     ELSE LET final_cell == get_cell(st, chain.pos)
              entered == [pushed EXCEPT !.current = chain.pos]
          IN IF HitsStop(tags, final_cell)
             THEN IF entered.backtrack_count < max_backtrack_depth
                  THEN _restore_from_decision(entered)
                  ELSE Return(entered, "STOP_TAG")
             ELSE LET added == AppendPath(entered, chain.pos, final_cell)
                  IN IF IsEmpty(final_cell) THEN Return(added, "EDGE_REACHED")
                     ELSE added

\* the strategy for the Ref under the cursor: the alternative recorded by a
\* backtrack, else the rule set's default
StrategyFor(rs, l) ==
  IF l.current \in DOMAIN l.alt THEN l.alt[l.current]
  ELSE IF rs = "TRY_ENTER_FIRST" THEN "portal"
  ELSE "solid"

\* the part of one iteration after the movement: cycle check, stop check and
\* the handling of the cell, a Ref under the given strategy
ProcessWith(st, tags, sp, d, md, l, strategy) ==
  IF l.current \in l.visited
  THEN IF l.current = sp THEN Return(l, "PATH_CYCLE_DETECTED")
       ELSE BacktrackOr(l, "PATH_CYCLE_DETECTED")
  ELSE LET cell == get_cell(st, l.current)
       IN IF HitsStop(tags, cell) THEN BacktrackOr(l, "STOP_TAG")
          ELSE IF IsRef(cell)
          THEN IF strategy = "portal"
               THEN LET entry_pos == try_enter(st, cell.g, d)
                    IN IF entry_pos # NoPos
                       THEN Portal(st, tags, d, md, l, cell, entry_pos)
                       ELSE AppendPath(l, l.current, cell)
               ELSE AppendPath(
                      [l EXCEPT !.decision_stack =
                         Append(@, DecisionPoint(l.current, cell, l.path, l.visited,
                                                 l.depth, "solid"))],
                      l.current, cell)
          ELSE LET added == AppendPath(l, l.current, cell)
               IN IF IsEmpty(cell) THEN Return(added, "EDGE_REACHED") ELSE added

Process(st, tags, sp, d, rs, md, l) ==
  ProcessWith(st, tags, sp, d, md, l, StrategyFor(rs, l))

\* one iteration of "while depth < max_depth"
\* (moved: the locals after the movement part)
AfterMovement(st, tags, sp, d, rs, md, moved) ==
  IF moved.ret # "" \/ moved.skip_movement THEN moved
  ELSE Process(st, tags, sp, d, rs, md, moved)

\* (l: the locals after "depth += 1")
Iteration(st, tags, sp, d, rs, md, l) ==
  IF ~l.skip_movement
  THEN AfterMovement(st, tags, sp, d, rs, md, Movement(st, d, md, l))
  ELSE Process(st, tags, sp, d, rs, md, [l EXCEPT !.skip_movement = FALSE])

LoopBody(st, tags, sp, d, rs, md, l0) ==
  Iteration(st, tags, sp, d, rs, md, [l0 EXCEPT !.depth = @ + 1])

\* the code after the loop: with a decision left it calls itself with eight
\* positional arguments for seven parameters, which raises TypeError
AfterLoop(l) ==
  IF l.decision_stack # <<>> /\ l.backtrack_count < max_backtrack_depth
  THEN Return(_restore_from_decision(l), "TypeError")
  ELSE Return(l, "MAX_DEPTH_REACHED")

push_traverse_backtracking(st, tags, sp, d, rs, md, l) ==
  IF l.depth < md THEN LoopBody(st, tags, sp, d, rs, md, l) ELSE AfterLoop(l)

\* the locals become those of the record l; a reason ends the loop
SetLocals(l) ==
  /\ current' = l.current /\ path' = l.path /\ visited' = l.visited
  /\ decision_stack' = l.decision_stack
  /\ alternative_strategy_refs' = l.alt
  /\ depth' = l.depth /\ backtrack_count' = l.backtrack_count
  /\ skip_movement' = l.skip_movement
  /\ reason' = l.ret
  /\ pc' = IF l.ret = "" THEN "loop" ELSE "finish"

PushLoop ==
  /\ pc = "loop"
  /\ SetLocals(push_traverse_backtracking(S, stops, start, direction, rules, MaxDepth,
                                          Locals))
  /\ UNCHANGED <<heap, store, stops, start, direction, rules, result, store0, sketch_vars, other_vars>>

(* -------------------------------- push --------------------------------- *)
\* TRUE when push hands the path to apply_push
push_applies(why, p, sp) ==
  \/ why = "EDGE_REACHED" /\ p # <<>> /\ IsEmpty(p[Len(p)].cell)
  \/ why = "PATH_CYCLE_DETECTED" /\ p # <<>> /\ Len(p) >= 2 /\ p[1].pos = sp

\* push after the traversal returned: apply_push on success, None otherwise;
\* an exception of the traversal leaves push without a return value
PushFinish ==
  /\ pc = "finish"
  /\ IF push_applies(reason, path, start)
     THEN LET a == apply_push(heap, store, path)
          IN heap' = a.heap /\ result' = a.ref
     ELSE heap' = heap /\ result' = IF reason = "TypeError" THEN -1 ELSE 0
  /\ pc' = "done"
  /\ UNCHANGED <<store, stops, start, direction, rules, reason, store0, locals, sketch_vars, other_vars>>

Next == PushStart \/ PushLoop \/ PushFinish

Spec == Init /\ [][Next]_vars


(* ----------------------------- push_simple ----------------------------- *)
\* a cell appended to the path; an Empty one ends the traversal
SimpleAppend(added, cell) ==
  IF IsEmpty(cell) THEN Return(added, "EDGE_REACHED") ELSE added

\* the final cell of the enter chain: its stop check, then it is appended
SimpleFinal(tags, entered, final_cell) ==
  IF HitsStop(tags, final_cell) THEN Return(entered, "STOP_TAG")
  ELSE SimpleAppend(AppendPath(entered, entered.current, final_cell), final_cell)

\* what _follow_enter_chain returned
SimpleChain(st, tags, l, chain) ==
  IF chain.pos = NoPos THEN Return(l, "ENTRY_DENIED")
  ELSE IF chain.cycle THEN Return(l, "ENTRY_CYCLE_DETECTED")
  ELSE SimpleFinal(tags, [l EXCEPT !.current = chain.pos], get_cell(st, chain.pos))

\* a Ref under the cursor: appended under PUSH_FIRST or when try_enter
\* refuses, entered otherwise
SimpleRef(st, tags, d, rs, md, l, cell, entry_pos) ==
  IF rs = "PUSH_FIRST" \/ entry_pos = NoPos THEN AppendPath(l, l.current, cell)
  ELSE SimpleChain(st, tags, l, _follow_enter_chain(st, entry_pos, d, md - l.depth))

\* the stop check and the handling of the cell under the cursor
SimpleCell(st, tags, d, rs, md, l, cell) ==
  IF HitsStop(tags, cell) THEN Return(l, "STOP_TAG")
  ELSE IF IsRef(cell) THEN SimpleRef(st, tags, d, rs, md, l, cell, try_enter(st, cell.g, d))
  ELSE SimpleAppend(AppendPath(l, l.current, cell), cell)

\* one pass of the loop of push_traverse_simple after "depth += 1" and the
\* movement: the visited check, then the cell
SimpleProcess(st, tags, d, rs, md, l) ==
  IF l.current \in l.visited THEN Return(l, "PATH_CYCLE_DETECTED")
  ELSE SimpleCell(st, tags, d, rs, md, l, get_cell(st, l.current))

\* the movement of one pass; push_traverse_simple keeps no decision, so an
\* exit cycle is returned
SimpleMoved(st, tags, d, rs, md, moved) ==
  IF moved.ret # "" THEN moved ELSE SimpleProcess(st, tags, d, rs, md, moved)

\* "while depth < max_depth: depth += 1 ..." and the return after the loop
push_traverse_simple(st, tags, d, rs, md, l) ==
  IF l.depth < md
  THEN SimpleMoved(st, tags, d, rs, md, Movement(st, d, md, [l EXCEPT !.depth = @ + 1]))
  ELSE Return(l, "MAX_DEPTH_REACHED")

(* ------------------- a whole push as one computation ------------------- *)
\* the locals of either traversal when its loop is reached, or its return
\* when the start cell is tagged "stop"
TraversalStart(st, tags, sp) ==
  LET l == [current |-> sp, path |-> <<>>, visited |-> {}, decision_stack |-> <<>>,
            alt |-> <<>>, depth |-> 0, backtrack_count |-> 0, skip_movement |-> FALSE,
            ret |-> ""]
  IN IF HitsStop(tags, get_cell(st, sp)) THEN Return(l, "STOP_TAG")
     ELSE AppendPath(l, sp, get_cell(st, sp))

\* the traversal of push (op "push") or of push_simple, pass after pass until
\* it returns
RECURSIVE Traversal(_, _, _, _, _, _, _, _)
Traversal(op, st, tags, sp, d, rs, md, l) ==
  IF l.ret # "" THEN l
  ELSE Traversal(op, st, tags, sp, d, rs, md,
                 IF op = "push" THEN push_traverse_backtracking(st, tags, sp, d, rs, md, l)
                 ELSE push_traverse_simple(st, tags, d, rs, md, l))

\* what push and push_simple make of the traversal: the new store, or None
\* with the reason the traversal gave; "raise" when the traversal raised
PushReturn(st, sp, l) ==
  IF push_applies(l.ret, l.path, sp)
  THEN [kind |-> "store", reason |-> "", store |-> NewStoreValue(st, l.path)]
  ELSE [kind |-> IF l.ret = "TypeError" THEN "raise" ELSE "None", reason |-> l.ret,
        store |-> <<>>]

PushOutcome(op, st, tags, sp, d, rs, md) ==
  PushReturn(st, sp, Traversal(op, st, tags, sp, d, rs, md, TraversalStart(st, tags, sp)))

(* ------------------------ test_rotations.py ---------------------------- *)
\* new_cells[col][original_rows - 1 - row] = grid.cells[row][col]
rotate_grid_90(grid) ==
  Grid(grid.id, [nr \in 1..cols(grid) |->
                   [nc \in 1..rows(grid) |-> grid.cells[rows(grid) - nc + 1][nr]]])

rotate_grid_store_90(st) == [i \in 1..Len(st) |-> rotate_grid_90(st[i])]

rotate_direction_90_anticlockwise(d) ==
  CASE d = "N" -> "W" [] d = "W" -> "S" [] d = "S" -> "E" [] d = "E" -> "N"

rotate_direction_90(d) ==
  CASE d = "N" -> "E" [] d = "E" -> "S" [] d = "S" -> "W" [] d = "W" -> "N"

\* (row, col) -> (col, original_rows - 1 - row), in the grid before rotation
rotate_position_90(st, pos) ==
  CellPosition(pos.g, pos.c, rows(StoreGet(st, pos.g)) - 1 - pos.r)

\* the outcome of a push seen after the rotation: a store is rotated, a
\* failure keeps its reason
RotatedOutcome(x) ==
  IF x.kind = "store" THEN [x EXCEPT !.store = rotate_grid_store_90(@)] ELSE x

(* ------------------- a push and its rotated problem -------------------- *)
\* push or push_simple is to be called with any start and rule set, in the
\* directions push is called in
RotationPush ==
  /\ ro_pc = "idle"
  /\ \E op \in {"push", "push_simple"}, sp \in Positions(S), d \in DirectionsFor(S),
        rs \in RefStrategy :
       ro' = [ro EXCEPT !.op = op, !.start = sp, !.direction = d, !.rules = rs]
  /\ ro_pc' = "called"
  /\ UNCHANGED <<heap, store, stops, start, direction, rules, pc, reason, result, store0,
                 locals, sketch_vars, other_vars_but_climb_rotation, climb_vars, entry_vars>>

\* the arguments of the call (turn 0) and of the call on the rotated store,
\* from the rotated start, in the rotated direction (turn 1)
RotationArgs(st, x, turn) ==
  IF turn = 0 THEN [store |-> st, start |-> x.start, direction |-> x.direction]
  ELSE [store |-> rotate_grid_store_90(st), start |-> rotate_position_90(st, x.start),
        direction |-> rotate_direction_90(x.direction)]

RotationCall(op, tags, rs, md, a) ==
  PushOutcome(op, a.store, tags, a.start, a.direction, rs, md)

\* both calls are made
RotationTurn ==
  /\ ro_pc = "called"
  /\ ro' = [ro EXCEPT !.outcome = [turn \in 0..1 |->
              RotationCall(ro.op, stops, ro.rules, MaxDepth, RotationArgs(S, ro, turn))]]
  /\ ro_pc' = "done"
  /\ UNCHANGED <<heap, store, stops, start, direction, rules, pc, reason, result, store0,
                 locals, sketch_vars, other_vars_but_climb_rotation, climb_vars, entry_vars>>

NextRotation == RotationPush \/ RotationTurn
SpecRotation == Init /\ [][NextRotation]_vars


(* ============ the strategy search of src/test_push_sketch.py =========== *)
\* a Cell of the sketch knows its position and its content
PathCell(st, pos) == [pos |-> pos, cell |-> get_cell(st, pos)]
\* Cell.has_tag('stop'): the content is 'stop:X', which parse_and_push gives
\* to the cells listed in stop_cells
has_tag_stop(tags, cell) == cell.k = "C" /\ cell.v \in tags

Navigator(pos, d) == [current |-> pos, direction |-> d]

Navigator_try_advance(st, n) ==
  LET dl == deltas(n.direction)
      grid == StoreGet(st, n.current.g)
      next_row == n.current.r + dl[1]
      next_col == n.current.c + dl[2]
  IN IF OutOfBounds(grid, next_row, next_col)
     THEN [ok |-> FALSE, nav |-> n]
     ELSE [ok |-> TRUE,
           nav |-> [n EXCEPT !.current = CellPosition(n.current.g, next_row, next_col)]]

\* a slip: the entry cell is taken on the far edge of the target grid
Navigator_try_enter_farside(st, n) ==
  LET cell == get_cell(st, n.current)
  IN IF ~IsRef(cell) THEN [ok |-> FALSE, nav |-> n]
     ELSE IF cell.g \notin StoreIds(st) THEN [ok |-> FALSE, nav |-> n]
     ELSE LET grid == StoreGet(st, cell.g)
              entry == CASE n.direction = "E" -> <<rows(grid) \div 2, cols(grid) - 1>>
                         [] n.direction = "W" -> <<rows(grid) \div 2, 0>>
                         [] n.direction = "S" -> <<rows(grid) - 1, cols(grid) \div 2>>
                         [] n.direction = "N" -> <<0, cols(grid) \div 2>>
          IN [ok |-> TRUE,
              nav |-> [n EXCEPT !.current = CellPosition(cell.g, entry[1], entry[2])]]

\* entry point by direction, middle of the edge
Navigator_try_enter(st, n) ==
  LET cell == get_cell(st, n.current)
  IN IF ~IsRef(cell) THEN [ok |-> FALSE, nav |-> n]
     ELSE IF cell.g \notin StoreIds(st) THEN [ok |-> FALSE, nav |-> n]
     ELSE LET grid == StoreGet(st, cell.g)
              entry == CASE n.direction = "E" -> <<rows(grid) \div 2, 0>>
                         [] n.direction = "W" -> <<rows(grid) \div 2, cols(grid) - 1>>
                         [] n.direction = "S" -> <<0, cols(grid) \div 2>>
                         [] n.direction = "N" -> <<rows(grid) - 1, cols(grid) \div 2>>
          IN [ok |-> TRUE,
              nav |-> [n EXCEPT !.current = CellPosition(cell.g, entry[1], entry[2])]]

Navigator_flip(n) ==
  [n EXCEPT !.direction = CASE @ = "N" -> "S" [] @ = "S" -> "N"
                            [] @ = "E" -> "W" [] @ = "W" -> "E"]

\* make_new_state: 'succeed', 'fail' or a State; kind tells which
State(p, n, strategies, seen) ==
  [kind |-> "state", path |-> p, nav |-> n, strategies |-> strategies, visited |-> seen]
Verdict(kind) ==
  [kind |-> kind, path |-> <<>>, nav |-> Navigator(NoPos, "E"), strategies |-> <<>>,
   visited |-> {}]

make_new_state(st, tags, rs, p, n, seen) ==
  LET T_cell == get_cell(st, n.current)
      applies(strat) ==
        CASE strat = "solid" -> Navigator_try_advance(st, n).ok
          [] strat = "enter" -> IsRef(T_cell)
          [] strat = "swallow" -> Len(p) > 0 /\ IsRef(p[Len(p)].cell)
          [] OTHER -> FALSE
  IN IF IsEmpty(T_cell) THEN Verdict("succeed")
     ELSE IF has_tag_stop(tags, T_cell) THEN Verdict("fail")
     ELSE IF n.current \in seen
     THEN IF Len(p) > 0 /\ n.current = p[1].pos THEN Verdict("succeed")
          ELSE Verdict("fail")
     ELSE LET strategies == SelectSeq(rs, applies)
          IN IF strategies = <<>> THEN Verdict("fail")
             ELSE State(p, n, strategies, seen \cup {n.current})

\* state.strategies.pop(0): the strategy taken and the ones left
PopStrategy_last(strategies) ==
  [strategy |-> strategies[Len(strategies)],
   rest |-> SubSeq(strategies, 1, Len(strategies) - 1)]
PopStrategy(strategies) == [strategy |-> Head(strategies), rest |-> Tail(strategies)]

\* a slip: the Navigator of the decision point was moved by the look-ahead of
\* 'solid', so 'enter' and 'swallow' start one cell further on
ApplyStrategy_probed(st, p, n, strat) ==
  LET moved == IF strat = "solid" THEN n ELSE Navigator_try_advance(st, n).nav
  IN CASE strat = "solid" ->
            LET adv == Navigator_try_advance(st, n)
            IN [ok |-> adv.ok, path |-> Append(p, PathCell(st, n.current)), nav |-> adv.nav]
       [] strat = "enter" ->
            LET ent == Navigator_try_enter(st, moved)
            IN [ok |-> ent.ok, path |-> p, nav |-> ent.nav]
       [] strat = "swallow" ->
            LET adv == Navigator_try_advance(st, Navigator_flip(moved))
                ent == Navigator_try_enter(st, adv.nav)
            IN [ok |-> adv.ok /\ ent.ok, path |-> Append(p, PathCell(st, moved.current)),
                nav |-> IF adv.ok THEN ent.nav ELSE adv.nav]

\* the match statement: the new path and the moved navigator, ok = FALSE when
\* advance() or enter() raised AssertionError
ApplyStrategy(st, p, n, strat) ==
  CASE strat = "solid" ->
         LET adv == Navigator_try_advance(st, n)
         IN [ok |-> adv.ok, path |-> Append(p, PathCell(st, n.current)), nav |-> adv.nav]
    [] strat = "enter" ->
         LET ent == Navigator_try_enter(st, n)
         IN [ok |-> ent.ok, path |-> p, nav |-> ent.nav]
    [] strat = "swallow" ->
         LET adv == Navigator_try_advance(st, Navigator_flip(n))
             ent == Navigator_try_enter(st, adv.nav)
         IN [ok |-> adv.ok /\ ent.ok, path |-> Append(p, PathCell(st, n.current)),
             nav |-> IF adv.ok THEN ent.nav ELSE adv.nav]

\* the orders of the three strategies a rules dict can give
RuleOrders ==
  { <<"solid", "enter", "swallow">>, <<"solid", "swallow", "enter">>,
    <<"enter", "solid", "swallow">>, <<"enter", "swallow", "solid">>,
    <<"swallow", "solid", "enter">>, <<"swallow", "enter", "solid">> }

\* push up to the loop: the first advance and the first make_new_state
SketchPushStart ==
  /\ pc = "idle"
  /\ \E sp \in Positions(S), d \in DirectionsFor(S), rs \in RuleOrders :
       /\ start' = sp /\ direction' = d /\ ref_strategy' = rs
       /\ store0' = S
       /\ LET adv == Navigator_try_advance(S, Navigator(sp, d))
              ns == make_new_state(S, stops, rs, << PathCell(S, sp) >>, adv.nav, {sp})
          IN /\ nav' = adv.nav
             /\ IF ~adv.ok
                THEN /\ sk_result' = [path |-> <<>>, result |-> "fail"]
                     /\ sk_decision_stack' = <<>> /\ pc' = "sk_done"
                ELSE IF ns.kind # "state"
                THEN /\ sk_result' = [path |-> <<>>, result |-> ns.kind]
                     /\ sk_decision_stack' = <<>> /\ pc' = "sk_done"
                ELSE /\ sk_result' = sk_result
                     /\ sk_decision_stack' = << ns >> /\ pc' = "sk_loop"
  /\ UNCHANGED <<heap, store, stops, rules, reason, result, locals, sk_strategy, new_path, other_vars>>

\* an iteration that finds the top state without strategies left
SketchPushPop ==
  /\ pc = "sk_loop" /\ sk_decision_stack # <<>>
  /\ sk_decision_stack[Len(sk_decision_stack)].strategies = <<>>
  /\ sk_decision_stack' = SubSeq(sk_decision_stack, 1, Len(sk_decision_stack) - 1)
  /\ UNCHANGED <<heap, store, stops, start, direction, rules, reason, result, store0,
                 locals, ref_strategy, nav, sk_strategy, new_path, sk_result, pc, other_vars>>

\* an iteration that takes the next strategy of the top state
SketchPushStrategy ==
  /\ pc = "sk_loop" /\ sk_decision_stack # <<>>
  /\ LET top == Len(sk_decision_stack)
         state == sk_decision_stack[top]
     IN /\ state.strategies # <<>>
        /\ LET popped == PopStrategy(state.strategies)
               stack1 == [sk_decision_stack EXCEPT ![top].strategies = popped.rest]
               done == ApplyStrategy(S, state.path, state.nav, popped.strategy)
               new_state == make_new_state(S, stops, ref_strategy, done.path, done.nav,
                                           state.visited)
           IN /\ sk_strategy' = popped.strategy
              /\ new_path' = done.path /\ nav' = done.nav
              /\ IF ~done.ok
                 THEN /\ sk_result' = [path |-> <<>>, result |-> "AssertionError"]
                      /\ sk_decision_stack' = stack1 /\ pc' = "sk_done"
                 ELSE IF new_state.kind = "succeed"
                 THEN /\ sk_result' = [path |-> Append(done.path, PathCell(S, done.nav.current)),
                                       result |-> "succeed"]
                      /\ sk_decision_stack' = stack1 /\ pc' = "sk_done"
                 ELSE IF new_state.kind = "fail"
                 THEN /\ sk_decision_stack' = stack1
                      /\ UNCHANGED <<sk_result, pc>>
                 ELSE /\ sk_decision_stack' = Append(stack1, new_state)
                      /\ UNCHANGED <<sk_result, pc>>
  /\ UNCHANGED <<heap, store, stops, start, direction, rules, reason, result, store0,
                 locals, ref_strategy, other_vars>>

\* the loop ends with the stack empty
SketchPushExhausted ==
  /\ pc = "sk_loop" /\ sk_decision_stack = <<>>
  /\ sk_result' = [path |-> <<>>, result |-> "fail"]
  /\ pc' = "sk_done"
  /\ UNCHANGED <<heap, store, stops, start, direction, rules, reason, result, store0,
                 locals, ref_strategy, sk_decision_stack, nav, sk_strategy, new_path, other_vars>>

NextSketch ==
  SketchPushStart \/ SketchPushPop \/ SketchPushStrategy \/ SketchPushExhausted

SpecSketch == Init /\ [][NextSketch]_vars

(* ------------------- _follow_exit_chain, pass by pass ------------------ *)
push_vars == <<heap, store, stops, start, direction, rules, pc, reason, result, store0,
               locals>>

\* the call: any position of the store as exit_pos, any direction
ExitChainStart ==
  /\ ex_pc = "idle"
  /\ \E p \in Positions(S), d \in Direction :
       /\ ex_exit_pos' = p /\ ex_direction' = d
       /\ ex' = [visited |-> {}, current |-> p, depth |-> 0,
                 ret |-> "", pos |-> NoPos, cycle |-> FALSE]
  /\ ex_pc' = "chain"
  /\ UNCHANGED <<push_vars, sketch_vars, report_vars, climb_vars, rotation_vars, entry_vars, pull_vars, mapper_vars, trip_vars, primary_vars>>

\* one pass of its loop, or its return
ExitChainPass ==
  /\ ex_pc = "chain"
  /\ ex' = ExitPass(S, ex_direction, MaxDepth, ex)
  /\ ex_pc' = IF ex'.ret = "" THEN "chain" ELSE "done"
  /\ UNCHANGED <<push_vars, sketch_vars, report_vars, climb_vars, rotation_vars, entry_vars, pull_vars, ex_direction, ex_exit_pos, mapper_vars, trip_vars, primary_vars>>

NextExit == ExitChainStart \/ ExitChainPass
SpecExit == Init /\ [][NextExit]_vars

(* ------------- the entry mapper between two sibling grids -------------- *)
\* a cell of A's East edge is left: the exit fraction is taken up to main,
\* the grid the exit lands in
MapperExit ==
  /\ mp_pc = "idle"
  /\ \E r \in 0..(rows(StoreGet(S, "A")) - 1) :
       /\ mp_row' = r
       /\ mp_exit' = compute_exit_ancestor_fraction(S, "A", r, "rows", "main")
  /\ mp_pc' = "exited"
  /\ UNCHANGED <<push_vars, sketch_vars, report_vars, climb_vars, rotation_vars, entry_vars, pull_vars, exit_vars, mp_entry, mp_equivalent, trip_vars, primary_vars>>

\* Ref(B) is entered heading East: the entry row from the ancestor fraction,
\* and the entry row of the equivalent point transfer
MapperEnter ==
  /\ mp_pc = "exited"
  /\ mp_entry' = compute_entry_from_ancestor_fraction(S, "B", mp_exit.fraction, "rows",
                                                      mp_exit.ancestor)
  /\ mp_equivalent' =
       calculate_entry_position_equivalent_point("E",
         calculate_exit_fraction("E", mp_row, 0, rows(StoreGet(S, "A")),
                                 cols(StoreGet(S, "A"))),
         rows(StoreGet(S, "B")), cols(StoreGet(S, "B")))[1]
  /\ mp_pc' = "entered"
  /\ UNCHANGED <<push_vars, sketch_vars, report_vars, climb_vars, rotation_vars, entry_vars, pull_vars, exit_vars, mp_row, mp_exit, trip_vars, primary_vars>>

InitMapper == \E inp \in SiblingInputs : InitWith(inp)
NextMapper == MapperExit \/ MapperEnter
SpecMapper == InitMapper /\ [][NextMapper]_vars

(* ---------------- a fraction mapped up a chain and down again ---------- *)
\* the centre of cell i of a dimension d
TripStart ==
  /\ rt_pc = "idle"
  /\ \E d \in 1..MaxDim : \E i \in 0..(d - 1) :
       /\ rt_cell' = [index |-> i, dimension |-> d]
       /\ rt_fraction' = compute_cell_center_fraction(i, d)
  /\ rt_chain' = <<>> /\ rt_level' = 0 /\ rt_pc' = "up"
  /\ UNCHANGED <<push_vars, sketch_vars, report_vars, climb_vars, rotation_vars, entry_vars, pull_vars, exit_vars, mapper_vars, primary_vars, rt_index>>

\* one hop upward, through any cell of any parent dimension
TripUp ==
  /\ rt_pc = "up" /\ Len(rt_chain) < MaxHops
  /\ \E pd \in 1..MaxDim : \E pi \in 0..(pd - 1) :
       /\ rt_chain' = Append(rt_chain, [index |-> pi, dimension |-> pd])
       /\ rt_fraction' = map_fraction_through_parent(rt_fraction, pi, pd)
  /\ rt_level' = rt_level + 1
  /\ UNCHANGED <<push_vars, sketch_vars, report_vars, climb_vars, rotation_vars, entry_vars, pull_vars, exit_vars, mapper_vars, primary_vars, rt_pc, rt_cell, rt_index>>

\* after at least one hop the way down starts
TripTurn ==
  /\ rt_pc = "up" /\ Len(rt_chain) >= 1
  /\ rt_pc' = "down"
  /\ UNCHANGED <<push_vars, sketch_vars, report_vars, climb_vars, rotation_vars, entry_vars, pull_vars, exit_vars, mapper_vars, primary_vars, rt_cell, rt_chain,
                 rt_level, rt_fraction, rt_index>>

\* one hop downward, through the hop last taken upward and not yet undone
TripDown ==
  /\ rt_pc = "down" /\ rt_level >= 1
  /\ rt_fraction' = map_fraction_to_child(rt_fraction, rt_chain[rt_level].index,
                                          rt_chain[rt_level].dimension)
  /\ rt_level' = rt_level - 1
  /\ UNCHANGED <<push_vars, sketch_vars, report_vars, climb_vars, rotation_vars, entry_vars, pull_vars, exit_vars, mapper_vars, primary_vars, rt_pc, rt_cell, rt_chain,
                 rt_index>>

\* back in the grid the fraction came from: the cell it falls in
TripIndex ==
  /\ rt_pc = "down" /\ rt_level = 0
  /\ rt_index' = find_nearest_cell(rt_fraction, rt_cell.dimension)
  /\ rt_pc' = "done"
  /\ UNCHANGED <<push_vars, sketch_vars, report_vars, climb_vars, rotation_vars, entry_vars, pull_vars, exit_vars, mapper_vars, primary_vars, rt_cell, rt_chain,
                 rt_level, rt_fraction>>

InitTrip == InitWith([store |-> StorePortal, stops |-> {}])
NextTrip == TripStart \/ TripUp \/ TripTurn \/ TripDown \/ TripIndex
SpecTrip == InitTrip /\ [][NextTrip]_vars

(* --------------------- find_primary_ref on its own --------------------- *)
\* called for any grid id of the store
FindPrimary ==
  /\ fp_pc = "idle"
  /\ \E t \in StoreIds(S) :
       /\ fp_target' = t
       /\ fp_result' = find_primary_ref(S, t)
  /\ fp_pc' = "done"
  /\ UNCHANGED <<push_vars, sketch_vars, report_vars, climb_vars, rotation_vars, entry_vars, pull_vars, exit_vars, mapper_vars, trip_vars>>

InitPrimary ==
  \E nr \in 1..2 : \E nc \in {n \in 1..MaxCols : nr * n <= MaxCols + 2} :
    \E fi \in [{<<1, 1>>} -> PrimaryKinds], fo \in [(1..nr) \X (1..nc) -> PrimaryKinds] :
      InitWith([store |-> PrimaryStore(nr, nc, fi, fo), stops |-> {}])
NextPrimary == FindPrimary
SpecPrimary == InitPrimary /\ [][NextPrimary]_vars

(* ------------------------------- pull, run ----------------------------- *)
\* the call, up to the first step
PullStart ==
  /\ pl_pc = "idle"
  /\ \E sp \in Positions(S), d \in DirectionsFor(S), rs \in RuleSets,
        md \in {MaxPullDepth, MaxDepth} :
       /\ pl_start' = sp /\ pl_direction' = d /\ pl_rules' = rs /\ pl_max_depth' = md
       /\ pl' = pull_begin(S, sp, d)
  /\ pl_pc' = IF pl'.why = "" THEN "walk" ELSE "done"
  /\ pl_result' = IF pl'.why = "" THEN pl_result ELSE S
  /\ UNCHANGED <<push_vars, sketch_vars, report_vars, climb_vars, rotation_vars, entry_vars, exit_vars, mapper_vars, trip_vars, primary_vars>>

\* one pass of its loop
PullWalk ==
  /\ pl_pc = "walk"
  /\ pl' = PullPass(S, stops, pl_direction, pl_rules, pl_max_depth, pl)
  /\ pl_pc' = IF pl'.why = "" THEN "walk" ELSE "apply"
  /\ UNCHANGED <<push_vars, sketch_vars, report_vars, climb_vars, rotation_vars, entry_vars, exit_vars, mapper_vars, trip_vars, primary_vars,
                 pl_start, pl_direction, pl_rules, pl_max_depth, pl_result>>

\* after the loop: the input when nothing was collected, apply_pull otherwise
PullFinish ==
  /\ pl_pc = "apply"
  /\ pl_result' = IF Len(pl.path) <= 1 THEN S ELSE apply_pull(S, pl.path)
  /\ pl_pc' = "done"
  /\ UNCHANGED <<push_vars, sketch_vars, report_vars, climb_vars, rotation_vars, entry_vars, exit_vars, mapper_vars, trip_vars, primary_vars,
                 pl_start, pl_direction, pl_rules, pl_max_depth, pl>>

InitPull == \E inp \in PullInputs : InitWith(inp)
NextPull == PullStart \/ PullWalk \/ PullFinish
SpecPull == InitPull /\ [][NextPull]_vars

(* ------------------ push reporting a PushFailure, run ------------------ *)
\* the call, with any start, direction along the row, rule order and max_depth
PushReporting ==
  /\ pc = "idle"
  /\ \E sp \in Positions(S), d \in DirectionsFor(S), rs \in RuleSets,
        md \in {MaxPullDepth, MaxDepth} :
       /\ start' = sp /\ direction' = d /\ pl_rules' = rs /\ pl_max_depth' = md
       /\ pf_result' = push_reporting(S, stops, sp, d, rs)
  /\ store0' = S
  /\ pc' = IF pf_result'.kind = "search" THEN "pf_search" ELSE "pf_done"
  /\ UNCHANGED <<heap, store, stops, rules, reason, result, locals, sketch_vars,
                 exit_vars, mapper_vars, trip_vars, primary_vars, climb_vars,
                 rotation_vars, entry_vars,
                 pl_pc, pl_start, pl_direction, pl, pl_result>>

\* one pass of the search
PushSearching ==
  /\ pc = "pf_search"
  /\ pf_result' = search(S, stops, pl_rules, pl_max_depth, pf_result)
  /\ pc' = IF pf_result'.kind = "search" THEN "pf_search" ELSE "pf_done"
  /\ UNCHANGED <<heap, store, stops, start, direction, rules, reason, result, store0,
                 locals, sketch_vars, exit_vars, mapper_vars, trip_vars, primary_vars,
                 pull_vars, climb_vars, rotation_vars, entry_vars>>

NextReporting == PushReporting \/ PushSearching
SpecReporting == InitPull /\ [][NextReporting]_vars

(* ------------- the continuity computation of an entry, run ------------- *)
\* a step from sp leaves its grid, the exit cascade lands on a Ref of another
\* grid, and try_enter asks for the entry cell: the exit fraction is taken up
\* to the landing grid
ClimbStart ==
  /\ cl_pc = "idle"
  /\ \E sp \in Positions(S), d \in DirectionsFor(S) :
       LET landing == Navigator_advance(S, d, sp)
       IN /\ OutOfBounds(StoreGet(S, sp.g), sp.r + deltas(d)[1], sp.c + deltas(d)[2])
          /\ landing # NoPos
          /\ IsRef(get_cell(S, landing))
          /\ cl' = [exit |-> sp, attr |-> EdgeAttr(d), ancestor |-> landing.g,
                    target |-> get_cell(S, landing).g, current |-> sp.g,
                    fraction |-> compute_cell_center_fraction(
                                   RefIndex(sp, EdgeAttr(d)),
                                   Dimension(StoreGet(S, sp.g), EdgeAttr(d))),
                    path |-> <<>>, passes |-> 0, returned |-> FALSE, index |-> 0]
  /\ cl_pc' = "up"
  /\ UNCHANGED <<push_vars, sketch_vars, other_vars_but_climb>>

\* one pass of the loop of compute_exit_ancestor_fraction
ClimbUp ==
  /\ cl_pc = "up" /\ cl.passes < MaxClimb
  /\ LET x == ExitFractionPass(S, cl.attr, cl.ancestor, cl)
     IN IF x.returned
        THEN /\ cl' = [x EXCEPT !.current = cl.target, !.passes = 0, !.returned = FALSE]
             /\ cl_pc' = "path"
        ELSE cl' = x /\ cl_pc' = "up"
  /\ UNCHANGED <<push_vars, sketch_vars, other_vars_but_climb>>

\* one pass of the first loop of compute_entry_from_ancestor_fraction
ClimbPath ==
  /\ cl_pc = "path" /\ cl.passes < MaxClimb
  /\ cl' = EntryPathPass(S, cl.ancestor, cl)
  /\ cl_pc' = IF cl'.returned THEN "down" ELSE "path"
  /\ UNCHANGED <<push_vars, sketch_vars, other_vars_but_climb>>

\* the way down the path and the nearest cell of the target
ClimbDown ==
  /\ cl_pc = "down"
  /\ cl' = [cl EXCEPT !.index =
              find_nearest_cell(EntryDown(S, cl.attr, cl.path, 1, cl.fraction),
                                Dimension(StoreGet(S, cl.target), cl.attr))]
  /\ cl_pc' = "done"
  /\ UNCHANGED <<push_vars, sketch_vars, other_vars_but_climb>>

InitClimb == \E inp \in ClimbInputs : InitWith(inp)
NextClimb == ClimbStart \/ ClimbUp \/ ClimbPath \/ ClimbDown
SpecClimb == InitClimb /\ [][NextClimb]_vars

(* ------------------- the entry position, on its own -------------------- *)
\* a target grid of any size, a direction of travel and an exit fraction in
\* [0, 1]
EntrySize ==
  /\ en_pc = "idle"
  /\ \E nr \in 1..MaxDim, nc \in 1..MaxDim, d \in Direction :
       \E fd \in 1..MaxDim : \E fn \in 0..fd :
         en' = [en EXCEPT !.rows = nr, !.cols = nc, !.direction = d,
                          !.fraction = Fraction(fn, fd)]
  /\ en_pc' = "sized"
  /\ UNCHANGED <<push_vars, sketch_vars, other_vars_but_climb_rotation, climb_vars, rotation_vars>>

\* the position as the row and column of a cell of the target grid
EntryPosition(rc) == CellPosition("target", rc[1], rc[2])

\* try_enter without continuity: the middle of the edge
EntryMiddle ==
  /\ en_pc = "sized"
  /\ en' = [en EXCEPT !.by = "middle",
              !.position = try_enter(EntryStore(en.rows, en.cols), "target", en.direction)]
  /\ en_pc' = "done"
  /\ UNCHANGED <<push_vars, sketch_vars, other_vars_but_climb_rotation, climb_vars, rotation_vars>>

\* the equivalent point of depth_aware_entry
EntryEquivalent ==
  /\ en_pc = "sized"
  /\ en' = [en EXCEPT !.by = "equivalent_point",
              !.position = EntryPosition(calculate_entry_position_equivalent_point(
                             en.direction, en.fraction, en.rows, en.cols))]
  /\ en_pc' = "done"
  /\ UNCHANGED <<push_vars, sketch_vars, other_vars_but_climb_rotation, climb_vars, rotation_vars>>

\* the nearest cell of ancestor_entry along the entry edge, put on the edge
EntryNearest ==
  /\ en_pc = "sized"
  /\ en' = [en EXCEPT !.by = "nearest_cell",
              !.position = EntryPosition(EntryOnEdge(en.direction,
                             find_nearest_cell(en.fraction,
                               IF en.direction \in {"E", "W"} THEN en.rows ELSE en.cols),
                             en.rows, en.cols))]
  /\ en_pc' = "done"
  /\ UNCHANGED <<push_vars, sketch_vars, other_vars_but_climb_rotation, climb_vars, rotation_vars>>

InitEntry == InitWith([store |-> StorePortal, stops |-> {}])
NextEntry == EntrySize \/ EntryMiddle \/ EntryEquivalent \/ EntryNearest
SpecEntry == InitEntry /\ [][NextEntry]_vars

(* ============================ properties =============================== *)
Done == pc = "done"
\* push returned a store
Succeeded == pc = "done" /\ result > 0
Out == heap[result]
PathPositions == {path[i].pos : i \in 1..Len(path)}
Cells(storeval) == {get_cell(storeval, pos) : pos \in Positions(storeval)}

\* C1: push never mutates its input: when push has returned (a store or a
\* failure) the dict passed in holds exactly the grids and cells it held at the
\* call.
C1_InputNotMutated == Done => heap[store] = store0

\* a push that returned a store differing from its input
C1_Witness == Succeeded /\ Out # store0 /\ heap[store] = store0

\* C2: a successful push permutes the cells on the applied path: every cell
\* value occurs on the path positions of the result as often as on the path
\* positions of the input.
C2_PathPermutation ==
  Succeeded =>
    \A cell \in Cells(store0) \cup Cells(Out) :
      Cardinality({pos \in PathPositions : get_cell(Out, pos) = cell})
        = Cardinality({pos \in PathPositions : get_cell(store0, pos) = cell})

C6_StopCellsStay ==
  Succeeded =>
    \A pos \in Positions(store0) :
      "stop" \in tag_fn(stops, get_cell(store0, pos))
        => get_cell(Out, pos) = get_cell(store0, pos)

\* a push that succeeded after a branch that met a stop-tagged cell was undone
C6_Witness ==
  /\ Succeeded /\ backtrack_count > 0 /\ Out # store0
  /\ \E pos \in Positions(store0) : "stop" \in tag_fn(stops, get_cell(store0, pos))

\* C7: when the path reaches a visited position the push succeeds if and only
\* if that position is the start; a revisit of any other position is reported
\* and never applied.
C7_CycleOnlyToStart ==
  (Done /\ reason = "PATH_CYCLE_DETECTED") => (result > 0 <=> current = start)

\* the inputs of C8: one grid of one row, no Ref, no stop-tagged cell, the
\* default rule set, pushing East
PlainRow ==
  /\ Len(store0) = 1 /\ rows(store0[1]) = 1
  /\ \A pos \in Positions(store0) :
       ~IsRef(get_cell(store0, pos)) /\ ~("stop" \in tag_fn(stops, get_cell(store0, pos)))
  /\ direction = "E" /\ rules = "PUSH_FIRST"

RowCell(storeval, col) == storeval[1].cells[1][col + 1]
EmptyColsAfter(col) ==
  {e \in (col + 1)..(cols(store0[1]) - 1) : IsEmpty(RowCell(store0, e))}
Nearest(E) == CHOOSE e \in E : \A f \in E : e <= f

\* C8: in a one-row grid without Refs or stop tags, push East from column s
\* with the default rule set succeeds exactly when some column e > s is Empty,
\* and then column s is Empty, every column k in s+1..e (e the nearest Empty)
\* holds the input content of column k-1, and the other columns are unchanged.
C8_RowShift ==
  (Done /\ PlainRow) =>
    LET s == start.c
        E == EmptyColsAfter(s)
    IN /\ result > 0 <=> E # {}
       /\ result > 0 =>
            LET e == Nearest(E)
            IN \A k \in 0..(cols(store0[1]) - 1) :
                 RowCell(Out, k) = IF k = s THEN Empty
                                   ELSE IF k \in (s + 1)..e THEN RowCell(store0, k - 1)
                                   ELSE RowCell(store0, k)

\* the scenario of C9: StorePortal pushed East from (main,0,0), portal first
ResultC9 ==
  << Grid("main", << <<Empty, Ref("a"), Concrete(12)>> >>),
     Grid("a", << <<Concrete(1), Concrete(11)>> >>) >>
ScenarioC9 ==
  /\ store0 = StorePortal /\ stops = {} /\ start = CellPosition("main", 0, 0)
  /\ direction = "E" /\ rules = "TRY_ENTER_FIRST"

\* C9: a Ref taken as a portal is not on the path and stays in place while the
\* pushed cells go through its grid: main = [1, INNER, Empty], INNER = [x, y],
\* portal first, push East from (main,0,0) gives main = [Empty, INNER, y] and
\* INNER = [1, x].
C9_PortalScenario ==
  (Done /\ ScenarioC9) =>
    /\ result > 0
    /\ Out = ResultC9
    /\ CellPosition("main", 0, 1) \notin PathPositions

C9_Witness == Done /\ ScenarioC9 /\ result > 0 /\ Len(path) = 4

(* ------------- what some choice of strategies can reach ---------------- *)
\* a traversal result that is a success in the sense of the push docstring:
\* the path ends at an Empty cell it moved onto, or loops back to the start
ProperSuccess(l, sp) ==
  \/ l.ret = "EDGE_REACHED" /\ Len(l.path) >= 2 /\ IsEmpty(l.path[Len(l.path)].cell)
  \/ l.ret = "PATH_CYCLE_DETECTED" /\ l.current = sp

\* TRUE when the traversal, taking at every Ref either strategy, can end in a
\* proper success from the locals l without revisiting a position.  Branches
\* are followed without backtracking (the budget of l is spent), so a failure
\* ends the branch.
RECURSIVE ChoiceSucceeds(_, _, _, _, _, _)
ChoiceSucceeds(st, tags, sp, d, md, l) ==
  IF ~(l.depth < md) THEN FALSE
  ELSE LET moved == Movement(st, d, md, [l EXCEPT !.depth = @ + 1])
       IN IF moved.ret # "" THEN FALSE
          ELSE \E strategy \in {"portal", "solid"} :
                 LET nxt == ProcessWith(st, tags, sp, d, md, moved, strategy)
                 IN IF nxt.ret # "" THEN ProperSuccess(nxt, sp)
                    ELSE /\ Cardinality({nxt.path[i].pos : i \in 1..Len(nxt.path)})
                              = Len(nxt.path)
                         /\ ChoiceSucceeds(st, tags, sp, d, md, nxt)

\* the locals after the part before the loop, with the backtrack budget spent
SeedLocals(st, sp) ==
  [current |-> sp, path |-> << [pos |-> sp, cell |-> get_cell(st, sp)] >>,
   visited |-> {sp}, decision_stack |-> <<>>, alt |-> <<>>, depth |-> 0,
   backtrack_count |-> max_backtrack_depth, skip_movement |-> FALSE, ret |-> ""]

SomeChoiceSucceeds ==
  /\ ~HitsStop(stops, get_cell(store0, start))
  /\ ChoiceSucceeds(store0, stops, start, direction, MaxDepth, SeedLocals(store0, start))

\* C4: push fails only when no choice of strategies succeeds: if taking one
\* strategy at each Ref can lead from start to an Empty target or back to the
\* start, push returns a store.
C4_Exhaustive == (Done /\ SomeChoiceSucceeds) => result > 0

(* ------------------- the sketch against a plain search ----------------- *)
SketchFail == [result |-> "fail", path |-> <<>>]
InSeq(x, sq) == \E i \in 1..Len(sq) : sq[i] = x

\* depth-first search written as a recursion: at a decision point the
\* strategies are taken in the order of rs, the next one only when the whole
\* branch below the previous one failed; an AssertionError ends the search
RECURSIVE Search(_, _, _, _, _, _)
RECURSIVE TryFrom(_, _, _, _, _)
Search(st, tags, rs, p, n, seen) ==
  LET ns == make_new_state(st, tags, rs, p, n, seen)
  IN IF ns.kind = "succeed"
     THEN [result |-> "succeed", path |-> Append(p, PathCell(st, n.current))]
     ELSE IF ns.kind = "fail" THEN SketchFail
     ELSE TryFrom(st, tags, rs, ns, 1)
TryFrom(st, tags, rs, ns, i) ==
  IF i > Len(rs) THEN SketchFail
  ELSE IF ~InSeq(rs[i], ns.strategies) THEN TryFrom(st, tags, rs, ns, i + 1)
  ELSE LET done == ApplyStrategy(st, ns.path, ns.nav, rs[i])
       IN IF ~done.ok THEN [result |-> "AssertionError", path |-> <<>>]
          ELSE LET r == Search(st, tags, rs, done.path, done.nav, ns.visited)
               IN IF r.result = "fail" THEN TryFrom(st, tags, rs, ns, i + 1) ELSE r

SketchDone == pc = "sk_done"
SketchExpected ==
  LET adv == Navigator_try_advance(store0, Navigator(start, direction))
  IN IF ~adv.ok THEN SketchFail
     ELSE Search(store0, stops, ref_strategy, << PathCell(store0, start) >>, adv.nav,
                 {start})

Branch ==
  LET chain == [k \in 1..Len(sk_decision_stack) |->
                  [path |-> sk_decision_stack[k].path, nav |-> sk_decision_stack[k].nav]]
  IN IF SketchDone /\ sk_result.result = "succeed" /\ sk_decision_stack # <<>>
     THEN Append(chain, [path |-> new_path, nav |-> nav])
     ELSE chain

\* the steps of the branch that applied swallow: only swallow turns the
\* navigator round
SwallowSteps ==
  {k \in 1..(Len(Branch) - 1) : Branch[k + 1].nav.direction # Branch[k].nav.direction}
SwallowS(k) == Branch[k].path[Len(Branch[k].path)]
SwallowT(k) == PathCell(store0, Branch[k].nav.current)
SwallowD(k) == Branch[k].nav.direction

\* the cell of grid gid met first when coming in against direction d
EntryAgainst(st, gid, d) ==
  LET grid == StoreGet(st, gid)
  IN CASE d = "E" -> CellPosition(gid, rows(grid) \div 2, cols(grid) - 1)
       [] d = "W" -> CellPosition(gid, rows(grid) \div 2, 0)
       [] d = "S" -> CellPosition(gid, rows(grid) - 1, cols(grid) \div 2)
       [] d = "N" -> CellPosition(gid, 0, cols(grid) \div 2)

SwallowContinues(k) ==
  /\ IsRef(SwallowS(k).cell)
  /\ Branch[k + 1].nav.current = EntryAgainst(store0, SwallowS(k).cell.g, SwallowD(k))

SketchOut == NewStoreValue(store0, sk_result.path)

\* C10 as stated: after swallow the path continues from the entry cell of S's
\* grid met against d, and on success T's content has been written into the
\* grid S refers to and S's Ref to T's former position.
C10_SwallowIntoSourceGrid ==
  \A k \in SwallowSteps :
    /\ SwallowContinues(k)
    /\ (SketchDone /\ sk_result.result = "succeed") =>
         /\ get_cell(SketchOut, SwallowT(k).pos) = SwallowS(k).cell
         /\ \E pos \in Positions(store0) :
              /\ pos.g = SwallowS(k).cell.g
              /\ get_cell(SketchOut, pos) = SwallowT(k).cell
              /\ get_cell(store0, pos) # SwallowT(k).cell

\* C10, amended: after swallow the path continues from the entry cell of S's
\* grid met against d; on success S's Ref is at T's former position and T's
\* content is at the position that follows T in the path, which is that entry
\* cell unless the search went on through it as a portal.
C10_SwallowNextCell ==
  \A k \in SwallowSteps :
    /\ SwallowContinues(k)
    /\ (SketchDone /\ sk_result.result = "succeed") =>
         LET iT == Len(Branch[k].path) + 1
             entered == Branch[k + 1].nav.current
         IN /\ sk_result.path[iT] = SwallowT(k)
            /\ get_cell(SketchOut, SwallowT(k).pos) = SwallowS(k).cell
            /\ get_cell(SketchOut, sk_result.path[iT + 1].pos) = SwallowT(k).cell
            /\ (sk_result.path[iT + 1].pos # entered) =>
                 /\ IsRef(get_cell(store0, entered))
                 /\ get_cell(SketchOut, entered) = get_cell(store0, entered)

\* a successful push North or South whose branch swallowed a cell
C10_Witness ==
  /\ SketchDone /\ sk_result.result = "succeed"
  /\ \E k \in SwallowSteps : SwallowD(k) \in {"N", "S"}

(* ------------------------------- C11 ----------------------------------- *)
\* two grids that hold nothing but a reference to each other
MutualRefs(storeval) ==
  /\ Len(storeval) = 2
  /\ \A i \in 1..2 : rows(storeval[i]) = 1 /\ cols(storeval[i]) = 1
  /\ IsRef(storeval[1].cells[1][1]) /\ storeval[1].cells[1][1].g = storeval[2].id
  /\ IsRef(storeval[2].cells[1][1]) /\ storeval[2].cells[1][1].g = storeval[1].id

\* C11: the exit cascade through primary references terminates on every store:
\* no (grid,row,col) triple is taken up twice, so the passes made never exceed
\* the triples seen, which are cells of the store; a cascade that finds neither
\* a non-Ref cell nor the way out of the root ends reporting the cycle, and it
\* does so for two 1x1 grids that each hold only a Ref to the other.
C11_ExitCycleTerminates ==
  ex_pc # "idle" =>
    /\ ex.depth <= Cardinality(ex.visited)
    /\ ex.visited \subseteq Positions(S)
    /\ ex_pc = "done" =>
         /\ ~ex.cycle => ex.pos = NoPos \/ ~IsRef(get_cell(S, ex.pos))
         /\ ex.cycle => ex.pos \in ex.visited
         /\ MutualRefs(S) => ex.cycle
         /\ [pos |-> ex.pos, cycle |-> ex.cycle]
              = _follow_exit_chain(S, ex_exit_pos, ex_direction, MaxDepth)

\* the cascade of the two 1x1 grids has ended on the repeated triple
C11_Witness ==
  /\ ex_pc = "done" /\ MutualRefs(S) /\ ex.cycle
  /\ ex.depth >= 1 /\ ex.pos \in ex.visited

(* ------------------------------- C12 ----------------------------------- *)
RowsA == rows(StoreGet(S, "A"))
RowsB == rows(StoreGet(S, "B"))
\* the entry row the claim gives for an exit from row r: top to top, bottom
\* to bottom, the middle of an odd height to the middle of an odd height
EquivalentRows(r, ha, hb, e) ==
  /\ r = 0 => e = 0
  /\ r = ha - 1 => e = hb - 1
  /\ (ha % 2 = 1 /\ hb % 2 = 1 /\ r = ha \div 2) => e = hb \div 2

\* C12: a push that leaves A through its East edge from row r and enters the
\* sibling Ref B at once enters B in the equivalent row of r (A and B of two
\* rows or more), by the ancestor fraction
C12_EquivalentPoint ==
  (mp_pc = "entered" /\ RowsA >= 2 /\ RowsB >= 2)
    => EquivalentRows(mp_row, RowsA, RowsB, mp_entry)

(* ------------------------------- C13 ----------------------------------- *)
\* C13: the centre of cell i of a dimension d, mapped upward through k >= 1
\* parent cells and downward through the same hops, is exactly the fraction it
\* started as, and the cell nearest to it is cell i.
C13_FractionRoundTrip ==
  /\ (rt_pc = "down" /\ rt_level = 0)
       => rt_fraction = compute_cell_center_fraction(rt_cell.index, rt_cell.dimension)
  /\ rt_pc = "done"
       => /\ rt_fraction = compute_cell_center_fraction(rt_cell.index, rt_cell.dimension)
          /\ rt_index = rt_cell.index

\* a round trip of MaxHops hops through inner cells of wider parents, from a
\* cell that is not the first of its dimension
C13_Witness ==
  /\ rt_pc = "done" /\ Len(rt_chain) = MaxHops
  /\ rt_cell.dimension >= 3 /\ rt_cell.index >= 1
  /\ \A h \in 1..Len(rt_chain) : rt_chain[h].dimension >= 2 /\ rt_chain[h].index >= 1
  /\ rt_chain[1] # rt_chain[2]

(* ------------------------------- C14 ----------------------------------- *)
\* the middle of the edge a direction comes in through, as <<row, col>>
MiddleOfEdge(d, nrows, ncols) ==
  IF d = "E" THEN << nrows \div 2, 0 >>
  ELSE IF d = "W" THEN << nrows \div 2, ncols - 1 >>
  ELSE IF d = "S" THEN << 0, ncols \div 2 >>
  ELSE << nrows - 1, ncols \div 2 >>

\* C14: without continuity state try_enter enters a grid at (rows//2, 0)
\* heading East, (rows//2, cols-1) heading West, (0, cols//2) heading South
\* and (rows-1, cols//2) heading North; pushed East with the portal first, the
\* 9 of the test store lands in the middle row of A's left edge.
C14_StandardEntry ==
  /\ \A i \in 1..Len(S) : \A d \in Direction :
       LET grid == S[i]
           mid == MiddleOfEdge(d, rows(grid), cols(grid))
       IN /\ try_enter(S, grid.id, d) = CellPosition(grid.id, mid[1], mid[2])
          /\ calculate_standard_entry_position(d, rows(grid), cols(grid)) = mid
  /\ (/\ pc = "done" /\ store0 = StoreStandardEntry
      /\ start = CellPosition("main", 0, 0) /\ direction = "E"
      /\ rules = "TRY_ENTER_FIRST")
       => /\ result # 0
          /\ get_cell(heap[result], CellPosition("A", 1, 0)) = Concrete(9)
          /\ get_cell(heap[result], CellPosition("A", 0, 0)) = Concrete(1)
          /\ get_cell(heap[result], CellPosition("A", 2, 0)) = Concrete(7)

\* the push of the test has been made and its result is there
C14_Witness ==
  /\ pc = "done" /\ store0 = StoreStandardEntry /\ result # 0
  /\ start = CellPosition("main", 0, 0) /\ direction = "E" /\ rules = "TRY_ENTER_FIRST"
  /\ get_cell(heap[result], CellPosition("A", 1, 0)) = Concrete(9)

(* ------------------------------- C15 ----------------------------------- *)
\* the place of a grid in the store's order
GridIndex(storeval, gid) == CHOOSE i \in 1..Len(storeval) : storeval[i].id = gid
\* position q comes before position p in grid, row, column order
ScansBefore(storeval, q, p) ==
  \/ GridIndex(storeval, q.g) < GridIndex(storeval, p.g)
  \/ q.g = p.g /\ (q.r < p.r \/ (q.r = p.r /\ q.c < p.c))
RefsTo(storeval, t) ==
  {p \in Positions(storeval) : IsRef(get_cell(storeval, p)) /\ get_cell(storeval, p).g = t}
MarkedRefsTo(storeval, t) == {p \in RefsTo(storeval, t) : get_cell(storeval, p).p = "true"}

\* C15: find_primary_ref returns a Ref to the target marked is_primary=true if
\* there is one, whatever comes before it; otherwise the first Ref to the
\* target in grid, row, column order; and None exactly when nothing refers to
\* the target.
C15_FindPrimaryRef ==
  fp_pc = "done" =>
    /\ MarkedRefsTo(S, fp_target) # {} => fp_result \in MarkedRefsTo(S, fp_target)
    /\ (MarkedRefsTo(S, fp_target) = {} /\ RefsTo(S, fp_target) # {}) =>
         /\ fp_result \in RefsTo(S, fp_target)
         /\ \A q \in RefsTo(S, fp_target) : ~ScansBefore(S, q, fp_result)
    /\ fp_result = NoPos <=> RefsTo(S, fp_target) = {}

\* the marked reference was returned although an unmarked one comes first
C15_Witness ==
  /\ fp_pc = "done" /\ fp_result \in MarkedRefsTo(S, fp_target)
  /\ \E q \in RefsTo(S, fp_target) :
       /\ get_cell(S, q).p = "none" /\ ScansBefore(S, q, fp_result)
       /\ q.g # fp_result.g

(* ------------------------------- C16 ----------------------------------- *)
PullDone == pl_pc = "done"

\* how often a cell value occurs among the cells at a set of positions
CountCells(storeval, ps, cell) ==
  Cardinality({p \in ps : get_cell(storeval, p) = cell})

\* the number of cells of a store
RECURSIVE NumCells(_, _)
NumCells(storeval, i) ==
  IF i > Len(storeval) THEN 0
  ELSE rows(storeval[i]) * cols(storeval[i]) + NumCells(storeval, i + 1)

\* a store of the same grids, of the same shapes, holding the same cells
SameGridsAs(storeval, other) ==
  /\ Len(storeval) = Len(other)
  /\ \A i \in 1..Len(other) :
       /\ storeval[i].id = other[i].id
       /\ rows(storeval[i]) = rows(other[i]) /\ cols(storeval[i]) = cols(other[i])
  /\ LET ps == Positions(other)
     IN \A p \in ps :
          CountCells(storeval, ps, get_cell(other, p)) = CountCells(other, ps, get_cell(other, p))

\* C16: pull terminates and returns a store for every store, start, direction
\* and rule order: its loop makes at most max_depth passes and fewer passes
\* than the store has positions, whatever ends the walk (a stop tag, a position
\* met again through self-referencing grids, the depth bound), and what it
\* returns is a store of the same grids holding the same cells.
C16_PullReturnsStore ==
  /\ pl.depth <= pl_max_depth
  /\ pl_pc # "idle" => pl.depth < NumCells(store0, 1)
  /\ pl.why \in {"", "START_NOT_EMPTY", "BLOCKED", "MAX_DEPTH", "EMPTY", "STOP_TAG",
                 "CYCLE", "EDGE"}
  /\ PullDone => SameGridsAs(pl_result, store0)

\* a walk through a grid that refers to itself came back to a position it had
\* taken, and pull returned with cells moved
C16_Witness ==
  /\ PullDone /\ pl.why = "CYCLE" /\ Len(pl.path) >= 2
  /\ \E p \in Positions(store0) : get_cell(store0, p) = Ref(p.g)

(* ------------------------------- C17 ----------------------------------- *)
\* C17: pull returns a store equal to its input when the start cell is not
\* Empty, when the Navigator cannot take the first step from start, and when
\* the path it collected has length <= 1.
C17_PullNoOp ==
  PullDone /\ (\/ ~IsEmpty(get_cell(store0, pl_start))
               \/ Navigator_advance(store0, pl_direction, pl_start) = NoPos
               \/ Len(pl.path) <= 1)
    => pl_result = store0

\* pull was called on a cell that is not Empty and has a cell to pull behind it
C17_Witness ==
  /\ PullDone /\ pl.why = "START_NOT_EMPTY" /\ pl_result = store0
  /\ LET next == Navigator_advance(store0, pl_direction, pl_start)
     IN /\ next # NoPos
        /\ get_cell(store0, next).k = "C" /\ ~HitsStop(stops, get_cell(store0, next))
        /\ get_cell(store0, next) # get_cell(store0, pl_start)

(* ------------------------------- C18 ----------------------------------- *)
PathPos(k) == pl.path[k].pos
OnPullPath(p) == \E k \in 1..Len(pl.path) : PathPos(k) = p

\* the result holds the path's cells shifted one position towards the start
PullShifted ==
  LET n == Len(pl.path)
  IN /\ \A k \in 1..(n - 1) : get_cell(pl_result, PathPos(k)) = get_cell(store0, PathPos(k + 1))
     /\ IsEmpty(get_cell(pl_result, PathPos(n)))
     /\ \A k \in 2..n : /\ ~IsEmpty(get_cell(store0, PathPos(k)))
                        /\ ~HitsStop(stops, get_cell(store0, PathPos(k)))
     /\ \A p \in Positions(store0) : ~OnPullPath(p) => get_cell(pl_result, p) = get_cell(store0, p)

\* the walk was ended by an Empty or stop-tagged cell
StoppedByCell == pl.why \in {"EMPTY", "STOP_TAG"}

\* C18 as stated: for a path [p0, ..., pn], n >= 1, the result holds at pk,
\* k < n, the input content of p(k+1) and Empty at pn; no Empty or stop-tagged
\* cell is pulled; the Empty or stop-tagged cell that ended the walk keeps its
\* content, and so does every cell off the path.
C18_PullRotation ==
  PullDone /\ Len(pl.path) >= 2 =>
    /\ PullShifted
    /\ StoppedByCell => get_cell(pl_result, pl.current) = get_cell(store0, pl.current)

\* C18, amended: the same, but the Empty cell that ends the walk keeps its
\* content only if it is not the start: a walk led back to its start through a
\* reference ends there, and the start has by then taken the content of p1.
C18_PullRotationAmended ==
  PullDone /\ Len(pl.path) >= 2 =>
    /\ PullShifted
    /\ StoppedByCell /\ pl.current # pl_start =>
         get_cell(pl_result, pl.current) = get_cell(store0, pl.current)

\* two cells or more were pulled up to a stop-tagged cell
C18_Witness ==
  /\ PullDone /\ pl.why = "STOP_TAG" /\ Len(pl.path) >= 3
  /\ pl_result # store0

(* ------------------------------- C19 ----------------------------------- *)
\* position of a strategy in a rule order
Rank(order, strategy) == CHOOSE i \in 1..Len(order) : order[i] = strategy

\* pull East from the Empty cell of main = [Empty, Ref(inner), A]
PullRefCase ==
  /\ store0 = StorePullRef /\ pl_start = CellPosition("main", 0, 0) /\ pl_direction = "E"
  /\ pl_max_depth = MaxDepth /\ PullDone

\* C19: pull takes the first applicable strategy of the rule order, never
\* SWALLOW wherever it stands in the order, and never takes a step back: the
\* path only grows.  On main = [Empty, Ref(inner), A], inner = [X, Y]: with
\* SOLID before PORTAL the Ref is pulled as an object and inner is unchanged;
\* with PORTAL before SOLID the Ref stays and X, Y, A are pulled through inner.
C19_FirstStrategyOnly ==
  /\ [](PullRefCase /\ Rank(pl_rules, "SOLID") < Rank(pl_rules, "PORTAL") =>
          pl_result = << Grid("main", << <<Ref("inner"), Concrete(1), Empty>> >>),
                         Grid("inner", << <<Concrete(11), Concrete(12)>> >>) >>)
  /\ [](PullRefCase /\ Rank(pl_rules, "PORTAL") < Rank(pl_rules, "SOLID") =>
          pl_result = << Grid("main", << <<Concrete(11), Ref("inner"), Empty>> >>),
                         Grid("inner", << <<Concrete(12), Concrete(1)>> >>) >>)
  /\ [][pl_pc = "walk" =>
          /\ Len(pl'.path) >= Len(pl.path)
          /\ SubSeq(pl'.path, 1, Len(pl.path)) = pl.path
          /\ pl'.depth >= pl.depth]_vars

\* the Ref was entered under an order that names SWALLOW first
C19_Witness ==
  /\ PullRefCase /\ pl_rules = <<"SWALLOW", "PORTAL", "SOLID">>
  /\ get_cell(pl_result, CellPosition("main", 0, 1)) = Ref("inner")
  /\ get_cell(pl_result, CellPosition("inner", 0, 1)) = Concrete(1)

(* ------------------------------- C20 ----------------------------------- *)
\* the start cell carries the stop tag
StopTaggedStart == pc # "idle" /\ "stop" \in tag_fn(stops, get_cell(store0, start))

Reported == pc = "pf_done"
ReportedFailure == Reported /\ pf_result.kind = "fail"
\* the Navigator cannot take the first step from start
NoFirstStep == Navigator_advance(store0, direction, start) = NoPos
\* pushing East along main = [Empty, 1, 2] from column c
NowhereToGo(c) ==
  /\ Reported /\ store0 = StorePullSimple
  /\ start = CellPosition("main", 0, c) /\ direction = "E"

\* what C21 says of NO_STRATEGY and of its example
StuckIsNoStrategy ==
  /\ ReportedFailure /\ pf_result.failure.reason = "BLOCKED" => NoFirstStep
  /\ ReportedFailure /\ pf_result.failure.reason = "NO_STRATEGY" =>
       /\ ~NoFirstStep
       /\ ~IsEmpty(get_cell(store0, pf_result.failure.position))
  /\ NowhereToGo(2) => ReportedFailure /\ pf_result.failure = PushFailure("BLOCKED", start)
  /\ NowhereToGo(1) => ReportedFailure /\ pf_result.failure.reason = "NO_STRATEGY"

EntryCycleExample ==
  /\ store0 = StoreEntryCycle /\ stops = {}
  /\ start = CellPosition("main", 0, 0) /\ direction = "E"

\* C22: when every branch of the search has failed, push reports the failure
\* of the branch that failed most recently: for main = [1, *a], a = [~a], the
\* push East from (main,0,0) fails and the reason it reports is the path cycle
\* met inside a.
C22_MostRecentFailure ==
  (Done /\ EntryCycleExample) => result = 0 /\ reason = "PATH_CYCLE_DETECTED"

\* the loop of the traversal has used up max_depth and is left
BudgetSpent == pc = "loop" /\ depth >= MaxDepth

\* C23: a push traversal that exceeds max_depth steps ends there with the
\* reason MAX_DEPTH, which push hands back as an ordinary failure: it does not
\* raise and the search is not taken up again.
C23_MaxDepthReturned ==
  /\ [][BudgetSpent => (pc' = "finish" /\ reason' = "MAX_DEPTH_REACHED")]_vars
  /\ [](Done /\ reason = "MAX_DEPTH_REACHED" => result = 0)

\* C24: push ends on every store, and with max_depth larger than the number
\* of cells of the store the traversal never uses up max_depth: the loop is
\* always left by a return, whatever references the grids hold to themselves
\* or to each other.
C24_DepthWithinCells ==
  (pc # "idle" /\ NumCells(store0, 1) < MaxDepth) =>
    /\ ~BudgetSpent
    /\ reason \notin {"MAX_DEPTH_REACHED", "TypeError"}

\* C25: the loops of the continuity computation end for every exit and target
\* a push can produce, a target entered through a secondary reference and
\* primary references that form a cycle included.  The grid a loop passes next
\* depends on the grid it is at alone, so a loop that ends passes no grid
\* twice: it makes at most as many passes as the store has grids.
C25_ContinuityEnds ==
  cl_pc \in {"up", "path"} => cl.passes <= Len(S)

\* the decision point the search of the sketch is at
TopState == sk_decision_stack[Len(sk_decision_stack)]
\* an iteration that takes a strategy of the top decision point
TakesStrategy ==
  /\ pc = "sk_loop" /\ sk_decision_stack # <<>>
  /\ TopState.strategies # <<>>
\* the strategy taken started from the path and the Navigator recorded in d:
\* the path is that path, with the cell under that Navigator added unless the
\* Ref there is entered, and the Navigator has moved from that cell
StartedFrom(d) ==
  /\ sk_strategy' = Head(d.strategies)
  /\ new_path' = IF sk_strategy' = "enter" THEN d.path
                 ELSE Append(d.path, PathCell(S, d.nav.current))
  /\ sk_strategy' = "solid" =>
       nav' = Navigator_try_advance(S, d.nav).nav
  /\ sk_strategy' = "enter" /\ IsRef(get_cell(S, d.nav.current)) =>
       /\ nav'.current.g = get_cell(S, d.nav.current).g
       /\ nav'.direction = d.nav.direction
  /\ \A i \in 1..Len(sk_decision_stack') :
       i > Len(sk_decision_stack) => sk_decision_stack'[i].visited \subseteq
                                       d.visited \cup {nav'.current}
\* a decision point keeps what was recorded in it as long as it is on the stack
RecordKept(i) ==
  /\ sk_decision_stack'[i].path = sk_decision_stack[i].path
  /\ sk_decision_stack'[i].nav = sk_decision_stack[i].nav
  /\ sk_decision_stack'[i].visited = sk_decision_stack[i].visited

\* C26: after a branch has failed the next strategy of a decision point starts
\* from the path, the visited set and the Navigator (position and direction)
\* recorded when the decision point was made: no step of the search, the
\* failed branch and the look-ahead of SOLID included, changes what a decision
\* point on the stack has recorded, and every strategy taken starts from the
\* record of the top decision point.
C26_BacktrackRestores ==
  /\ [][\A i \in 1..Len(sk_decision_stack) :
          i <= Len(sk_decision_stack') => RecordKept(i)]_vars
  /\ [][TakesStrategy => StartedFrom(TopState)]_vars

\* the strategies the decision point d had when it was made
StrategiesAtFirst(d) ==
  make_new_state(S, stops, ref_strategy, d.path, d.nav, d.visited \ {d.nav.current}).strategies
\* the branch of a strategy of decision point i has failed and a later
\* strategy was taken there
TriedAgain(i) ==
  Len(sk_decision_stack[i].strategies) + 2 <= Len(StrategiesAtFirst(sk_decision_stack[i]))

\* a push that succeeded with a strategy taken at a decision point after the
\* branch of an earlier strategy had failed there
C26_Witness ==
  /\ pc = "sk_done" /\ sk_result.result = "succeed"
  /\ \E i \in 1..Len(sk_decision_stack) : TriedAgain(i)

\* C27: a push or pull applied to a store returns a store of the same grid
\* ids, each grid with its row and column counts, holding the same cells as
\* often as before, and so does every sequence of them, each applied to the
\* result of the one before; no Ref of a grid that is not in the store
\* appears.  For a push that handed a path to apply_push:
C27_CellsConserved ==
  Succeeded =>
    /\ SameGridsAs(Out, store0)
    /\ \A pos \in Positions(Out) :
         IsRef(get_cell(Out, pos)) => get_cell(Out, pos).g \in StoreIds(Out)

\* the traversal is about to move and the step leaves the grid of the cursor
LeavesGrid ==
  /\ pc = "loop" /\ ~skip_movement /\ depth < MaxDepth
  /\ OutOfBounds(StoreGet(S, current.g), current.r + deltas(direction)[1],
                 current.c + deltas(direction)[2])

\* C28: a step that leaves grid G through an edge goes on at the cell next, in
\* the direction of travel, to the primary reference of G as find_primary_ref
\* gives it, however G was entered, and where that cell is out of bounds too
\* it goes on from the primary reference of the parent in the same way.
C28_ExitThroughPrimary ==
  LeavesGrid /\ Navigator_advance(S, direction, current) # NoPos =>
    /\ Movement(S, direction, MaxDepth, Locals).ret = ""
    /\ Movement(S, direction, MaxDepth, Locals).current = Navigator_advance(S, direction, current)


(* ------------------------------- C29 ----------------------------------- *)
Referenced(st) == {gid \in StoreIds(st) : RefsTo(st, gid) # {}}
\* every grid a Ref points to has an odd number of rows, and one Ref only
\* points to it
OddRowsOneRef(st) ==
  \A gid \in Referenced(st) :
    /\ rows(StoreGet(st, gid)) % 2 = 1
    /\ Cardinality(RefsTo(st, gid)) = 1
RotationDone == ro_pc = "done"
EntryDone == en_pc = "done"
\* the edge of the target grid a traveller in direction d comes in through
OnEntryEdge(d, pos, grid_rows, grid_cols) ==
  CASE d = "E" -> pos.c = 0
    [] d = "W" -> pos.c = grid_cols - 1
    [] d = "S" -> pos.r = 0
    [] d = "N" -> pos.r = grid_rows - 1
\* C30: every entry position, by the middle of the edge or by continuity, is
\* inside the target grid (0 <= row < rows, 0 <= col < cols) and on the edge
\* matching the direction of travel, for every grid size from 1x1 upward and
\* every exit fraction in [0, 1].
C30_EntryInsideOnEdge ==
  EntryDone =>
    /\ en.position.g = "target"
    /\ 0 <= en.position.r /\ en.position.r < en.rows
    /\ 0 <= en.position.c /\ en.position.c < en.cols
    /\ OnEntryEdge(en.direction, en.position, en.rows, en.cols)
\* an entry by continuity with exit fraction 1 into the largest grid: the last
\* cell of the entry edge
C30_Witness ==
  /\ EntryDone /\ en.by = "equivalent_point" /\ en.fraction = Fraction(1, 1)
  /\ en.rows = MaxDim /\ en.cols = MaxDim /\ en.direction = "W"
  /\ en.position = CellPosition("target", MaxDim - 1, MaxDim - 1)

====
